---------------------------- MODULE Spec2Model ----------------------------
(* Evidence registry (registry.py): the JSON store, the commands that      *)
(* change it (init, import-md, import-refs, add, supersede) and the read-   *)
(* side reports computed from it (summary, gaps, stale).                    *)
(*                                                                          *)
(* Numbers that are Python floats in the source (quality_score,             *)
(* relevance_mult, final_score) are fixed-point integers here, in units of  *)
(* 1/Scale.  A key that a JSON record does not carry (or carries as None)   *)
(* is the value None for a string-valued key, NoNum for a number-valued     *)
(* key, NoId for a study id and NoDate for a year-month string.             *)
EXTENDS Integers, Sequences, FiniteSets, TLC

VARIABLES
    db,           \* content of studies.json (meaningful when file_exists)
    file_exists,  \* DATA_PATH.exists()
    exit_status,  \* exit status of the last command
    report,       \* [cmd, rows]: the rows the last command reported, if it
                  \* was summary, gaps or stale (cmd is "" after any other)
    today         \* datetime.now(), as <<year, month, day>>

vars == <<db, file_exists, exit_status, report, today>>

---------------------------------------------------------------------------
(* Bounds of the model.                                                     *)

\* at most this many studies are ever stored
MaxStudies == 2
\* uid() draws its random suffix from 1..MaxSuffix
MaxSuffix == 2
\* an import file holds at most this many rows / references
MaxRows == 2
\* at most this many studies are ever marked superseded
MaxSuperseded == 1
\* studies of a store handed to the summary engine
MaxSummaryStudies == 3
\* the clock of the stale report runs over FirstYear .. FirstYear + YearSpan
YearSpan == 2

---------------------------------------------------------------------------
(* Values.                                                                  *)

None == "None"
NoNum == -1
NoId == <<>>
NoDate == <<>>

\* fixed-point unit of the float-valued fields
Scale == 100

\* the three direction symbols: '+', U+2212 and U+00B1
DirPlus == "+"
DirMinus == "MINUS SIGN"
DirMixed == "PLUS-MINUS SIGN"
\* the ASCII hyphen, which import-md accepts for U+2212
AsciiHyphen == "-"
\* the direction a link without a 'direction' key yields: lk.get('direction', '')
NoDirection == ""

Max(a, b) == IF a >= b THEN a ELSE b

RECURSIVE SeqMax(_)
\* max(...) over a sequence of numbers, 0 for the empty one
SeqMax(s) == IF s = <<>> THEN 0 ELSE Max(Head(s), SeqMax(Tail(s)))

\* does sequence s hold the value x
Contains(s, x) == \E i \in 1..Len(s) : s[i] = x

---------------------------------------------------------------------------
(* Year-month strings.  A string is the sequence of its code points, so     *)
(* that Python's str < str is the lexicographic order on sequences.         *)

CodeOfDigit(d) == 48 + d
CodeOfHyphen == 45

\* strftime('%Y-%m'): four digits of the year, '-', two digits of the month
StrfYearMonth(y, m) ==
    << CodeOfDigit((y \div 1000) % 10), CodeOfDigit((y \div 100) % 10),
       CodeOfDigit((y \div 10) % 10), CodeOfDigit(y % 10),
       CodeOfHyphen,
       CodeOfDigit((m \div 10) % 10), CodeOfDigit(m % 10) >>

RECURSIVE StrLess(_, _)
\* Python's a < b on strings
StrLess(a, b) ==
    IF b = <<>> THEN FALSE
    ELSE IF a = <<>> THEN TRUE
    ELSE IF Head(a) # Head(b) THEN Head(a) < Head(b)
    ELSE StrLess(Tail(a), Tail(b))

IsLeap(y) == (y % 4 = 0) /\ ((y % 100 # 0) \/ (y % 400 = 0))

DaysInMonth(y, m) ==
    IF m = 2 THEN (IF IsLeap(y) THEN 29 ELSE 28)
    ELSE IF m \in {4, 6, 9, 11} THEN 30 ELSE 31

\* days before January 1st of year y (proleptic Gregorian ordinal)
DaysBeforeYear(y) ==
    (y - 1) * 365 + ((y - 1) \div 4) - ((y - 1) \div 100) + ((y - 1) \div 400)

RECURSIVE DaysBeforeMonth(_, _)
DaysBeforeMonth(y, m) ==
    IF m = 1 THEN 0 ELSE DaysBeforeMonth(y, m - 1) + DaysInMonth(y, m - 1)

\* date.toordinal()
ToOrdinal(d) == DaysBeforeYear(d[1]) + DaysBeforeMonth(d[1], d[2]) + d[3]

\* <<year, month>> of the date with ordinal n
YearMonthOfOrdinal(n) ==
    LET y == CHOOSE yy \in (n \div 366)..((n \div 365) + 1) :
                 DaysBeforeYear(yy) < n /\ n <= DaysBeforeYear(yy + 1)
        r == n - DaysBeforeYear(y)
        m == CHOOSE mm \in 1..12 :
                 DaysBeforeMonth(y, mm) < r
                 /\ r <= DaysBeforeMonth(y, mm) + DaysInMonth(y, mm)
    IN <<y, m>>

\* days of the timedelta in cmd_stale
StaleDays == 180

\* (datetime.now() - timedelta(days=180)).strftime('%Y-%m')
StaleCutoff(now) ==
    LET ym == YearMonthOfOrdinal(ToOrdinal(now) - StaleDays)
    IN StrfYearMonth(ym[1], ym[2])

\* datetime.now().strftime('%Y-%m')
NowYearMonth(now) == StrfYearMonth(now[1], now[2])

---------------------------------------------------------------------------
(* The store.                                                               *)

\* {'studies': [], 'claims': [], 'study_claims': [], 'evidence_usage': []}
EmptyDb == [studies |-> <<>>, claims |-> <<>>, study_claims |-> <<>>,
            evidence_usage |-> <<>>]

\* load_db(): the file's content, or the empty structure if there is no file
load_db == IF file_exists THEN db ELSE EmptyDb

\* save_db(d): write studies.json
save_db(d) == db' = d /\ file_exists' = TRUE

\* make_study_id's cleaning of the authors string, for the authors the model
\* uses: first word, cut at '&', letters only, lower-cased
AuthorKey(authors) ==
    CASE authors = "Smith et al." -> "smith"
      [] authors = "Smith & Lee"  -> "smith"
      [] authors = "Lee J"        -> "lee"
      [] authors = ""             -> ""
      [] OTHER                    -> authors

\* f"{author}-{year}-{uid()[:4]}", the random part being the argument suffix
make_study_id(authors, year, suffix) == <<AuthorKey(authors), year, suffix>>

\* the claim ids of the model in Python's string order, 'protein->cancer'
\* standing for the key with the arrow U+2192
ClaimOrder == <<"protein->cancer", "protein->mortality", "sleep->mortality">>

ClaimIds == {ClaimOrder[i] : i \in 1..Len(ClaimOrder)}

\* tag.split(arrow, 1)
SplitClaim(tag) ==
    CASE tag = "protein->cancer"    -> <<"protein", "cancer">>
      [] tag = "protein->mortality" -> <<"protein", "mortality">>
      [] tag = "sleep->mortality"   -> <<"sleep", "mortality">>
      [] OTHER                      -> <<tag, "">>

\* the claim record import-md and add append for a tag
ClaimRecord(tag, desc) ==
    [claim_id |-> tag, exposure |-> SplitClaim(tag)[1],
     outcome |-> SplitClaim(tag)[2], description |-> desc]

---------------------------------------------------------------------------
(* find_studies_for_claim and build_summary_data.                           *)

\* link_map[sid] of find_studies_for_claim: the dict comprehension keeps the
\* value of the last link of the claim that names the study
LinkMapHas(d, claim_id, sid) ==
    \E i \in 1..Len(d.study_claims) :
        d.study_claims[i].claim_id = claim_id /\ d.study_claims[i].study_id = sid

LinkMapGet(d, claim_id, sid) ==
    LET idx == {i \in 1..Len(d.study_claims) :
                   d.study_claims[i].claim_id = claim_id
                   /\ d.study_claims[i].study_id = sid}
        last == CHOOSE i \in idx : \A j \in idx : j <= i
        dir == d.study_claims[last].direction
    IN IF dir = None THEN NoDirection ELSE dir

RECURSIVE InsertByScoreDesc(_, _)
\* x put into the sorted sequence s behind every entry whose score is not lower
InsertByScoreDesc(s, x) ==
    IF s = <<>> THEN <<x>>
    ELSE IF Head(s).final_score >= x.final_score
         THEN <<Head(s)>> \o InsertByScoreDesc(Tail(s), x)
         ELSE <<x>> \o s

\* the studies left in the order of the store, as if the sort were dropped
LeftUnsorted(s) == s

RECURSIVE SortByScoreDesc(_)
\* results.sort(key=final_score, reverse=True): stable, highest score first
SortByScoreDesc(s) ==
    IF s = <<>> THEN <<>>
    ELSE InsertByScoreDesc(SortByScoreDesc(SubSeq(s, 1, Len(s) - 1)), s[Len(s)])

\* the direction find_studies_for_claim puts on the copy of study s
EnrichedDirection(d, claim_id, s) == LinkMapGet(d, claim_id, s.study_id)

RECURSIVE Enriched(_, _, _)
\* the copies of the linked studies among studs, in the order of the store,
\* each with the direction of its link
Enriched(d, claim_id, studs) ==
    IF studs = <<>> THEN <<>>
    ELSE (IF LinkMapHas(d, claim_id, Head(studs).study_id)
          THEN <<[Head(studs) EXCEPT
                     !.direction = EnrichedDirection(d, claim_id, Head(studs))]>>
          ELSE <<>>)
         \o Enriched(d, claim_id, Tail(studs))

\* find_studies_for_claim(db, claim_id, direction), direction None = no filter
find_studies_for_claim(d, claim_id, direction) ==
    LET results == Enriched(d, claim_id, d.studies)
        wanted(s) == s.direction = direction
        kept == IF direction # None /\ direction # ""
                THEN SelectSeq(results, wanted) ELSE results
    IN SortByScoreDesc(kept)

\* f"{x:.0f}": round to the nearest integer, a tie to the even one
FormatScore0f(x) ==
    LET q == x \div Scale
        r == x % Scale
    IN IF 2 * r < Scale THEN q
       ELSE IF 2 * r > Scale THEN q + 1
       ELSE IF q % 2 = 0 THEN q ELSE q + 1

\* best_plus / best_minus: authors, year and formatted score of the first
\* entry, or the dash for an empty partition (here the empty tuple)
BestOf(part) ==
    IF part = <<>> THEN <<>>
    ELSE <<part[1].authors, part[1].pub_year, FormatScore0f(part[1].final_score)>>

\* thresholds of the confidence tier, on the 0-14 scale
StrongMin == 12
ModerateMin == 10

\* '+ (contested)' and 'U+2212 (contested)'
ContestedPlus == "+ (contested)"
ContestedMinus == "MINUS SIGN (contested)"

\* the net verdict of build_summary_data
NetDirection(plus, minus, mixed) ==
    IF plus # <<>> /\ minus = <<>> /\ mixed = <<>> THEN DirPlus
    ELSE IF minus # <<>> /\ plus = <<>> THEN DirMinus
    ELSE IF mixed # <<>> /\ plus = <<>> /\ minus = <<>> THEN DirMixed
    ELSE LET bp == IF plus # <<>> THEN plus[1].final_score ELSE 0
             bm == IF minus # <<>> THEN minus[1].final_score ELSE 0
         IN IF bp >= bm THEN ContestedPlus ELSE ContestedMinus

\* top = max(final_score over the claim's studies)
TopScore(studies) == SeqMax([i \in 1..Len(studies) |-> studies[i].final_score])

\* the tiers with the thresholds excluded, as if >= were written >
ConfidenceExclusive(top) ==
    IF top > StrongMin * Scale THEN "Strong"
    ELSE IF top > ModerateMin * Scale THEN "Moderate"
    ELSE "Limited"

\* the confidence tier
Confidence(top) ==
    IF top >= StrongMin * Scale THEN "Strong"
    ELSE IF top >= ModerateMin * Scale THEN "Moderate"
    ELSE "Limited"

\* the gap flag with the conditional studies left out of the first test
GapFlagIgnoringMixed(plus, minus, mixed) ==
    IF minus = <<>> /\ plus # <<>> THEN "Need contradicting study"
    ELSE IF minus # <<>> /\ plus = <<>> THEN "Need supporting study"
    ELSE ""

\* the gap flag
GapFlag(plus, minus, mixed) ==
    IF minus = <<>> /\ mixed = <<>> /\ plus # <<>> THEN "Need contradicting study"
    ELSE IF minus # <<>> /\ plus = <<>> THEN "Need supporting study"
    ELSE ""

\* one row of the summary, for a claim with the studies found for it
SummaryRow(cid, studies) ==
    LET isplus(s) == s.direction = DirPlus
        isminus(s) == s.direction = DirMinus
        ismixed(s) == s.direction = DirMixed
        plus == SelectSeq(studies, isplus)
        minus == SelectSeq(studies, isminus)
        mixed == SelectSeq(studies, ismixed)
    IN [claim |-> cid, n_plus |-> Len(plus), n_minus |-> Len(minus),
        n_mixed |-> Len(mixed), best_plus |-> BestOf(plus),
        best_minus |-> BestOf(minus),
        net |-> NetDirection(plus, minus, mixed),
        confidence |-> Confidence(TopScore(studies)),
        gap |-> GapFlag(plus, minus, mixed)]

\* no claim left out, as if the "continue" were dropped
NeverSkipClaim(studies) == FALSE

\* "if not studies: continue": is the claim left out of the summary
SkipClaim(studies) == studies = <<>>

\* sorted({c['claim_id'] for c in db['claims']})
SortedClaimIds(d) ==
    LET present(c) == \E i \in 1..Len(d.claims) : d.claims[i].claim_id = c
    IN SelectSeq(ClaimOrder, present)

RECURSIVE SummaryRows(_, _)
SummaryRows(d, cids) ==
    IF cids = <<>> THEN <<>>
    ELSE LET studies == find_studies_for_claim(d, Head(cids), None)
         IN (IF SkipClaim(studies) THEN <<>>
             ELSE <<SummaryRow(Head(cids), studies)>>)
            \o SummaryRows(d, Tail(cids))

\* build_summary_data(db)
build_summary_data(d) == SummaryRows(d, SortedClaimIds(d))

\* a find that writes the direction into the stored record itself
AnnotatedInPlace(d, claim_id, s) ==
    [s EXCEPT !.direction = EnrichedDirection(d, claim_id, s)]

\* the stored record s of a linked study once find_studies_for_claim has
\* gone over it: "enriched = dict(s)" copies the record before the
\* direction is set, so s keeps its own
StoredAfterFind(d, claim_id, s) == s

\* the loaded snapshot once find_studies_for_claim(d, claim_id) has
\* returned: the filter and the sort work on the list of copies
SnapshotAfterFind(d, claim_id) ==
    [d EXCEPT !.studies =
        [i \in 1..Len(d.studies) |->
            IF LinkMapHas(d, claim_id, d.studies[i].study_id)
            THEN StoredAfterFind(d, claim_id, d.studies[i])
            ELSE d.studies[i]]]

RECURSIVE SnapshotAfterFinds(_, _)
\* the loaded snapshot once build_summary_data has called
\* find_studies_for_claim for each of cids in turn
SnapshotAfterFinds(d, cids) ==
    IF cids = <<>> THEN d
    ELSE SnapshotAfterFinds(SnapshotAfterFind(d, Head(cids)), Tail(cids))

---------------------------------------------------------------------------
(* The read-side commands summary and gaps.                                 *)

\* no rows: the last command was not a reporting one
NoReport == [cmd |-> "", rows |-> <<>>]

\* what a command that writes the store prints: its name and the lines that
\* tell its outcomes apart
Printed(cmd, lines) == [cmd |-> cmd, rows |-> lines]

\* CLAIM_TO_CATEGORY.get(exposure, 'other') for the exposures of the model
get_claim_category(claim_id) ==
    IF SplitClaim(claim_id)[1] = "protein" THEN "protein" ELSE "other"

\* cmd_summary: print the rows of build_summary_data
CmdSummary ==
    /\ file_exists
    /\ report' = [cmd |-> "summary", rows |-> build_summary_data(load_db)]
    /\ exit_status' = 0
    /\ UNCHANGED <<db, file_exists, today>>

\* the gap strings cmd_gaps joins for a weak row
GapStrings(row) ==
    (IF row.n_plus < 2 THEN <<<<"Need more supporting", 2 - row.n_plus>>>> ELSE <<>>)
    \o (IF row.n_minus = 0 /\ row.n_plus > 0
        THEN <<<<"Need contradicting study", 0>>>> ELSE <<>>)

RECURSIVE GapRows(_, _)
\* the rows cmd_gaps prints: the weak rows of the category, each with its
\* gap strings
GapRows(rows, category) ==
    IF rows = <<>> THEN <<>>
    ELSE LET r == Head(rows)
             incat == category = None \/ get_claim_category(r.claim) = category
             isweak == r.n_plus < 2 \/ r.n_minus = 0
         IN (IF incat /\ isweak THEN <<[r EXCEPT !.gap = GapStrings(r)]>> ELSE <<>>)
            \o GapRows(Tail(rows), category)

\* cmd_gaps: the weak rows of the summary, of one category if one is given
CmdGaps(category) ==
    /\ file_exists
    /\ report' = [cmd |-> "gaps",
                  rows |-> GapRows(build_summary_data(load_db), category)]
    /\ exit_status' = 0
    /\ UNCHANGED <<db, file_exists, today>>

---------------------------------------------------------------------------
(* The summary engine on an arbitrary store: studies.json is an input of    *)
(* the program, and its links may carry a 'direction' key.                  *)

\* final scores of the stores handed to the engine: below, at and between
\* the two confidence thresholds
SummaryScores == {9 * Scale, 10 * Scale, 12 * Scale}

\* what a study of such a store is linked to: nothing, the first claim with
\* one of the directions or none, or the second claim
LinkChoices ==
    {<<>>} \cup {<<ClaimOrder[1], dir>> : dir \in {DirPlus, DirMinus, DirMixed, None}}
           \cup {<<ClaimOrder[2], DirMinus>>}

\* the study record of a store handed to the engine
SummaryStudy(i, score, dir) ==
    [study_id |-> make_study_id("Smith et al.", 2020, i),
     authors |-> "Smith et al.", pub_year |-> 2020, doi |-> None, title |-> None,
     quality_score |-> score, relevance_mult |-> Scale, relevance |-> NoNum,
     final_score |-> score, direction |-> dir,
     verified_date |-> StrfYearMonth(2026, 2), status |-> None,
     superseded_by |-> NoId]

RECURSIVE SummaryLinks(_, _)
\* the links of the first n studies under the choice function lk
SummaryLinks(n, lk) ==
    IF n = 0 THEN <<>>
    ELSE SummaryLinks(n - 1, lk)
         \o (IF lk[n] = <<>> THEN <<>>
             ELSE <<[study_id |-> make_study_id("Smith et al.", 2020, n),
                     claim_id |-> lk[n][1], direction |-> lk[n][2]]>>)

InitSummary ==
    /\ \E n \in 0..MaxSummaryStudies :
         \E sc \in [1..n -> SummaryScores], lk \in [1..n -> LinkChoices] :
             db = [studies |-> [i \in 1..n |-> SummaryStudy(i, sc[i], DirPlus)],
                   claims |-> [i \in 1..Len(ClaimOrder) |-> ClaimRecord(ClaimOrder[i], "")],
                   study_claims |-> SummaryLinks(n, lk),
                   evidence_usage |-> <<>>]
    /\ file_exists = TRUE
    /\ exit_status = 0
    /\ report = NoReport
    /\ today = <<2026, 11, 5>>

NextSummary ==
    \/ CmdSummary
    \/ \E category \in {None, "protein"} : CmdGaps(category)

SpecSummary == InitSummary /\ [][NextSummary]_vars

---------------------------------------------------------------------------
(* Text cells.  A cell that the code parses (a score, an age, a title) is   *)
(* the sequence of its characters.                                          *)

IsDigit(c) == \E n \in 0..9 : ToString(n) = c

DigitValue(c) == CHOOSE n \in 0..9 : ToString(n) = c

AllDigits(s) == \A i \in 1..Len(s) : IsDigit(s[i])

RECURSIVE DigitsValue(_)
\* the number a sequence of decimal digits writes
DigitsValue(s) ==
    IF s = <<>> THEN 0
    ELSE 10 * DigitsValue(SubSeq(s, 1, Len(s) - 1)) + DigitValue(s[Len(s)])

RECURSIVE PowerOfTen(_)
PowerOfTen(n) == IF n = 0 THEN 1 ELSE 10 * PowerOfTen(n - 1)

\* the texts float() turns into a value that is no number or not finite (of
\* the cells of the model: nan and inf, with or without a minus sign)
IsNonFinite(text) ==
    LET body == IF text # <<>> /\ text[1] = "-" THEN Tail(text) ELSE text
    IN body \in {<<"n", "a", "n">>, <<"i", "n", "f">>}

\* float(text): [ok, val], val in units of 1/Scale; ok is FALSE where float()
\* raises ValueError.  Covers the plain decimal numerals [-]d*[.d*] with at
\* most two decimals, which is what the cells of the model hold; for nan and
\* inf float() returns too, see IsNonFinite.
ParseFloat(text) ==
    LET neg == text # <<>> /\ text[1] = "-"
        body == IF neg THEN Tail(text) ELSE text
        dots == {i \in 1..Len(body) : body[i] = "."}
        dot == IF dots = {} THEN Len(body) + 1 ELSE CHOOSE i \in dots : TRUE
        ip == SubSeq(body, 1, dot - 1)
        fp == SubSeq(body, dot + 1, Len(body))
        mag == DigitsValue(ip) * Scale
               + ((DigitsValue(fp) * Scale) \div PowerOfTen(Len(fp)))
    IN IF Cardinality(dots) > 1 \/ ~AllDigits(ip) \/ ~AllDigits(fp)
          \/ (ip = <<>> /\ fp = <<>>)
       THEN [ok |-> FALSE, val |-> 0]
       ELSE [ok |-> TRUE, val |-> IF neg THEN 0 - mag ELSE mag]

\* int(text): [ok, val]
ParseInt(text) ==
    IF text = <<>> \/ ~AllDigits(text) THEN [ok |-> FALSE, val |-> 0]
    ELSE [ok |-> TRUE, val |-> DigitsValue(text)]

\* the top of the quality scale and the half-relevance limit of parse_score
MaxQuality == 14
HalfRelevanceBelow == 7

\* does parse_score raise: float() returns nan or an infinity, and int() of
\* it, outside the try block, raises ValueError or OverflowError
ParseScoreRaises(score_str) == IsNonFinite(score_str)

\* parse_score(score_str): <<quality, relevance, final>>, where it returns
parse_score(score_str) ==
    LET p == ParseFloat(score_str)
        final == p.val
    IN IF ~p.ok THEN <<0, Scale, 0>>
       ELSE IF final % Scale = 0 /\ final <= MaxQuality * Scale
            THEN <<final, Scale, final>>
       ELSE IF final < HalfRelevanceBelow * Scale
            THEN <<final * 2, Scale \div 2, final>>
       ELSE <<final, Scale, final>>

\* quality * relevance of cmd_add (both in units of 1/Scale)
Times(a, b) == (a * b) \div Scale

\* the score cells handed to parse_score: the texts of up to MaxCellLen
\* characters over a few digits, the point, the minus sign and a letter,
\* and the two texts that float() reads as no finite number
MaxCellLen == 3
ScoreChars == {"1", "4", "5", "6", "7", ".", "-", "x"}
ScoreCells ==
    {<<>>, <<"n", "a", "n">>, <<"i", "n", "f">>, <<"-", "i", "n", "f">>}
    \cup UNION {[1..n -> ScoreChars] : n \in 1..MaxCellLen}

\* a call of parse_score on the cell the report holds
CallParseScore ==
    /\ report.cmd = "cell"
    /\ report' = [cmd |-> "parse_score",
                  rows |-> <<report.rows[1], ParseScoreRaises(report.rows[1]),
                             IF ParseScoreRaises(report.rows[1]) THEN <<>>
                             ELSE parse_score(report.rows[1])>>]
    /\ UNCHANGED <<db, file_exists, exit_status, today>>

InitScore ==
    /\ db = EmptyDb
    /\ file_exists = FALSE
    /\ exit_status = 0
    /\ \E cell \in ScoreCells : report = [cmd |-> "cell", rows |-> <<cell>>]
    /\ today = <<2026, 11, 5>>

NextScore == CallParseScore

SpecScore == InitScore /\ [][NextScore]_vars

---------------------------------------------------------------------------
(* import-md.  The file is taken after the line splitting: the rows of the  *)
(* claim vocabulary table and the rows of the study tables under the known  *)
(* sections, each row with the cells the code reads.                        *)

\* doi = cell if cell.startswith('10.') else None
DoiOfCell(cell) == IF cell \in {"10.1/a", "10.1/b"} THEN cell ELSE None

\* the direction cell, the ASCII hyphen read as U+2212
DirectionOfCell(cell) == IF cell = AsciiHyphen THEN DirMinus ELSE cell

\* pub_year = 2026 - int(age), 2020 on ValueError
ImportBaseYear == 2026
DefaultYear == 2020
YearOfAgeCell(cell) ==
    IF ParseInt(cell).ok THEN ImportBaseYear - ParseInt(cell).val ELSE DefaultYear

\* existing_dois: {s['doi'] for s in db['studies'] if s.get('doi')}
ExistingDois(d) == {d.studies[i].doi : i \in 1..Len(d.studies)} \ {None}

\* existing_claims: {c['claim_id'] for c in db['claims']}
ExistingClaims(d) == {d.claims[i].claim_id : i \in 1..Len(d.claims)}

\* the study record import-md appends for a row
MdStudy(row, sid) ==
    LET qrf == parse_score(row.score)
    IN [study_id |-> sid, authors |-> row.authors,
        pub_year |-> YearOfAgeCell(row.age), doi |-> DoiOfCell(row.doi),
        title |-> None,
        quality_score |-> qrf[1], relevance_mult |-> qrf[2], relevance |-> NoNum,
        final_score |-> qrf[3], direction |-> DirectionOfCell(row.direction),
        verified_date |-> StrfYearMonth(2026, 2), status |-> None,
        superseded_by |-> NoId]

\* does the first cell of a vocabulary row name a claim: it holds the arrow
\* and is not the table header 'Tag'
IsVocabTag(tag) == tag \in ClaimIds /\ tag # "Tag"

RECURSIVE MdVocab(_, _)
\* the vocabulary loop: a claim record for every tag not yet known
MdVocab(acc, tags) ==
    IF tags = <<>> THEN acc
    ELSE IF ~IsVocabTag(Head(tags)) \/ Head(tags) \in acc.claims
         THEN MdVocab(acc, Tail(tags))
    ELSE MdVocab([acc EXCEPT
                     !.d.claims = Append(@, ClaimRecord(Head(tags), "vocabulary")),
                     !.claims = @ \cup {Head(tags)}],
                 Tail(tags))

\* the loop without its test for a stored DOI: no row is skipped
MdNeverSkipRow(doi, existing_dois) == FALSE

\* is the row skipped: "if doi and doi in existing_dois: continue"
MdSkipRow(doi, existing_dois) == doi # None /\ doi \in existing_dois

RECURSIVE MdTagsUnregistered(_, _, _)
\* the tags linked without a claim record being made for a new tag
MdTagsUnregistered(acc, sid, tags) ==
    IF tags = <<>> THEN acc
    ELSE MdTagsUnregistered(
             [acc EXCEPT !.d.study_claims =
                 Append(@, [study_id |-> sid, claim_id |-> Head(tags),
                            direction |-> None])],
             sid, Tail(tags))

RECURSIVE MdTags(_, _, _)
\* the claim-tag loop of one row: new claims, and links not yet stored
MdTags(acc, sid, tags) ==
    IF tags = <<>> THEN acc
    ELSE LET tag == Head(tags)
             a1 == IF tag \in acc.claims THEN acc
                   ELSE [acc EXCEPT !.d.claims = Append(@, ClaimRecord(tag, "")),
                                    !.claims = @ \cup {tag}]
             link == [study_id |-> sid, claim_id |-> tag, direction |-> None]
             a2 == IF Contains(a1.d.study_claims, link) THEN a1
                   ELSE [a1 EXCEPT !.d.study_claims = Append(@, link)]
         IN MdTags(a2, sid, Tail(tags))

\* the usage records of one row; uids[i] is the uid() of the i-th of them
MdUsages(sid, used_in, uids) ==
    [i \in 1..Len(used_in) |->
        [id |-> uids[i], study_id |-> sid, page_file |-> used_in[i][1],
         card_id |-> used_in[i][2], role |-> used_in[i][3]]]

RECURSIVE MdRows(_, _, _, _, _)
\* the study-table loop; draws[k] is the random suffix of the study of row k
\* and udraws[k] the uid() values of its usage records
MdRows(acc, rows, draws, udraws, k) ==
    IF k > Len(rows) THEN acc
    ELSE LET row == rows[k]
             doi == DoiOfCell(row.doi)
         IN IF MdSkipRow(doi, acc.dois) THEN MdRows(acc, rows, draws, udraws, k + 1)
            ELSE LET sid == make_study_id(row.authors, YearOfAgeCell(row.age),
                                          draws[k])
                     a1 == [acc EXCEPT
                               !.d.studies = Append(@, MdStudy(row, sid)),
                               !.dois = IF doi # None THEN @ \cup {doi} ELSE @]
                     a2 == MdTags(a1, sid, row.claims)
                     a3 == [a2 EXCEPT !.d.evidence_usage =
                                         @ \o MdUsages(sid, row.used_in, udraws[k])]
                 IN MdRows(a3, rows, draws, udraws, k + 1)

\* what cmd_import_md saves for a file, from the loaded store d
ImportMdResult(d, file, draws, udraws) ==
    LET acc0 == [d |-> d, dois |-> ExistingDois(d), claims |-> ExistingClaims(d)]
    IN MdRows(MdVocab(acc0, file.vocab), file.rows, draws, udraws, 1).d

\* the rows the model's files are made of
RowSmith ==
    [authors |-> "Smith et al.", age |-> <<"6">>, doi |-> "10.1/a",
     score |-> <<"1", "2">>, direction |-> "+",
     claims |-> <<"protein->cancer">>,
     used_in |-> << <<"protein-evidence.html", "q1", "featured">> >>]
RowLee ==
    [authors |-> "Lee J", age |-> <<"x">>, doi |-> "n/a",
     score |-> <<"6", ".", "5">>, direction |-> "-",
     claims |-> <<"protein->cancer", "protein->cancer">>, used_in |-> <<>>]
RowSmithLee ==
    [authors |-> "Smith & Lee", age |-> <<"6">>, doi |-> "10.1/a",
     score |-> <<"7", ".", "5">>, direction |-> DirMixed,
     claims |-> <<"protein->mortality">>, used_in |-> <<>>]

MdRowSet == {RowSmith, RowLee, RowSmithLee}

\* sequences over S of length 1..n
SeqsUpTo(S, n) == UNION {[1..k -> S] : k \in 1..n}

\* the files: the vocabulary table (its header row and one tag that no study
\* row uses) and up to MaxRows study rows
MdFiles ==
    {[vocab |-> <<"Tag", "sleep->mortality">>, rows |-> r] :
        r \in SeqsUpTo(MdRowSet, MaxRows)}

Suffixes == 1..MaxSuffix

\* The suffixes are interchangeable names, so the study stored in position n
\* draws among the first n of them: it meets an earlier suffix or takes a new
\* one.  SuffixDraws(first, n) are the draws of n studies stored from
\* position first on.
SuffixesFor(n) == {x \in Suffixes : x <= n}
SuffixDraws(first, n) ==
    {f \in [1..n -> Suffixes] : \A k \in 1..n : f[k] \in SuffixesFor(first + k - 1)}

\* the rows of the file whose DOI is not among dois: no more than these are
\* stored
RowsNotStored(dois, file) ==
    {k \in 1..Len(file.rows) : ~MdSkipRow(DoiOfCell(file.rows[k].doi), dois)}

\* the random draws of an import of file, ns being the rows that may be
\* stored and first the position of the first of them: a suffix for each of
\* these rows and a uid() for each of its usage records (a row that is
\* skipped draws nothing)
MdDraws(first, file, ns) ==
    {f \in SuffixDraws(first, Len(file.rows)) :
        \A k \in 1..Len(file.rows) : k \notin ns => f[k] = 1}
MdUsageDraws(file, ns) ==
    {ud \in [1..Len(file.rows) -> {<<>>} \cup [1..1 -> Suffixes]] :
        \A k \in 1..Len(file.rows) :
            Len(ud[k]) = IF k \in ns THEN Len(file.rows[k].used_in) ELSE 0}

\* what an import of file may save, from the loaded store d
ImportMdResults(d, file) ==
    LET ns == RowsNotStored(ExistingDois(d), file)
    IN {ImportMdResult(d, file, draws, udraws) :
           draws \in MdDraws(Len(d.studies) + 1, file, ns),
           udraws \in MdUsageDraws(file, ns)}

\* cmd_import_md but for what it prints; found is md_path.exists()
ImportMd(found, file) ==
    /\ IF ~found
       THEN exit_status' = 1 /\ UNCHANGED <<db, file_exists>>
       ELSE /\ exit_status' = 0
            /\ \E d \in ImportMdResults(load_db, file) : save_db(d)
    /\ UNCHANGED today

\* cmd_import_md (the model takes the files that fit in MaxStudies studies)
CmdImportMd(found, file) ==
    /\ Len(load_db.studies) + Len(file.rows) <= MaxStudies
    /\ ImportMd(found, file)
    /\ report' = Printed("import-md", <<>>)

\* cmd_import_md, the report keeping the file of the command line (the model
\* takes the imports that leave at most MaxStudies studies)
CmdImportMdOf(found, file) ==
    /\ Len(load_db.studies)
          + Cardinality(RowsNotStored(ExistingDois(load_db), file)) <= MaxStudies
    /\ ImportMd(found, file)
    /\ report' = Printed("import-md", <<file>>)

---------------------------------------------------------------------------
(* init and supersede.                                                      *)

\* init without its test for an existing store: it writes the empty store
\* over whatever is there
CmdInitOverwrite ==
    /\ save_db(EmptyDb)
    /\ exit_status' = 0
    /\ report' = Printed("init", <<>>)
    /\ UNCHANGED today

\* cmd_init: create the empty store unless there is one
CmdInit ==
    /\ IF file_exists THEN UNCHANGED <<db, file_exists>> ELSE save_db(EmptyDb)
    /\ exit_status' = 0
    /\ report' = Printed("init", <<>>)
    /\ UNCHANGED today

\* next((s for s in db['studies'] if s['study_id'] == sid), None): the index
\* of the first study with the id, 0 for None
FirstStudyWithId(d, sid) ==
    LET idx == {i \in 1..Len(d.studies) : d.studies[i].study_id = sid}
    IN IF idx = {} THEN 0 ELSE CHOOSE i \in idx : \A j \in idx : i <= j

\* the lookups with the second one forgotten: only the old study is looked for
SupersedeFoundOld(d, old_id, new_id) == FirstStudyWithId(d, old_id) # 0

\* may supersede go on: both lookups found a study
SupersedeFound(d, old_id, new_id) ==
    FirstStudyWithId(d, old_id) # 0 /\ FirstStudyWithId(d, new_id) # 0

\* the studies of d marked superseded
Superseded(d) == {i \in 1..Len(d.studies) : d.studies[i].status = "superseded"}

\* cmd_supersede (the model stops marking once MaxSuperseded studies are)
CmdSupersede(old_id, new_id) ==
    /\ Cardinality(Superseded(load_db)) < MaxSuperseded
    /\ LET d == load_db
       IN IF ~SupersedeFound(d, old_id, new_id)
          THEN exit_status' = 1 /\ UNCHANGED <<db, file_exists>>
          ELSE /\ exit_status' = 0
               /\ save_db([d EXCEPT !.studies[FirstStudyWithId(d, old_id)] =
                              [@ EXCEPT !.status = "superseded",
                                        !.superseded_by = new_id]])
    /\ report' = Printed("supersede", <<>>)
    /\ UNCHANGED today

---------------------------------------------------------------------------
(* DOI validation.                                                          *)

\* t.lower(), for the letters the titles of the model use
LowerChar(c) ==
    CASE c = "P" -> "p" [] c = "M" -> "m" [] c = "A" -> "a" [] c = "R" -> "r"
      [] c = "S" -> "s" [] OTHER -> c

\* does re.sub(r'[^a-z0-9]', '', ...) keep the (lower-cased) character
IsLowerAlnum(c) == IsDigit(c) \/ c \in {"a", "m", "p", "r", "s", "x"}

\* lengths of validate_doi's title comparison
NormalizedLen == 60
PrefixLen == 40

Prefix(t, n) == SubSeq(t, 1, IF Len(t) < n THEN Len(t) ELSE n)

\* normalize(t): lower-case, keep letters and digits, first 60 characters
NormalizeTitle(t) ==
    Prefix(SelectSeq([i \in 1..Len(t) |-> LowerChar(t[i])], IsLowerAlnum), NormalizedLen)

\* a in b, on strings
IsSubstring(a, b) ==
    \E i \in 0..(Len(b) - Len(a)) : SubSeq(b, i + 1, i + Len(a)) = a

\* the fuzzy title comparison
TitlesMatch(expected, resolved) ==
    LET e == NormalizeTitle(expected)
        r == NormalizeTitle(resolved)
    IN \/ Prefix(e, PrefixLen) = Prefix(r, PrefixLen)
       \/ IsSubstring(e, r)
       \/ IsSubstring(r, e)

\* what the resolver may answer.  With status 200: a citation record (a JSON
\* object, with its title), a JSON value that is no object, a body that is no
\* JSON.  Else a 404, another HTTP error status, a URLError, or a timeout
\* while the body is read (which urllib does not wrap in URLError).
ResolverAnswers ==
    {[kind |-> "ok", title |-> <<"P", "m", " ", "r">>],
     [kind |-> "ok", title |-> <<"x">>],
     [kind |-> "notobject", title |-> <<>>],
     [kind |-> "badjson", title |-> <<>>],
     [kind |-> "http404", title |-> <<>>],
     [kind |-> "http500", title |-> <<>>],
     [kind |-> "network", title |-> <<>>],
     [kind |-> "timeout", title |-> <<>>]}

\* the error message of validate_doi for an answer its try block rejects
ResolveError(kind) ==
    CASE kind = "http404" -> "DOI not found (404)"
      [] kind = "http500" -> "HTTP 500 resolving DOI"
      [] kind = "network" -> "Network error resolving DOI"
      [] OTHER -> "Error resolving DOI"

\* the result dict validate_doi starts from
NoResult ==
    [raises |-> FALSE, valid |-> FALSE, title_match |-> "null",
     resolved_title |-> <<>>, error |-> "None"]

\* validate_doi(doi, expected_title), answer being what the resolver returns;
\* title_match is "true", "false" or "null"; raises says that the call ends
\* with an exception (data.get on a value that is no dict) instead of a result
validate_doi(doi, expected_title, answer) ==
    IF doi = None THEN [NoResult EXCEPT !.error = "No DOI provided"]
    ELSE IF answer.kind \notin {"ok", "notobject"}
    THEN [NoResult EXCEPT !.error = ResolveError(answer.kind)]
    ELSE IF answer.kind = "notobject"
    THEN [NoResult EXCEPT !.raises = TRUE, !.valid = TRUE]
    ELSE [NoResult EXCEPT
             !.valid = TRUE,
             !.title_match = IF expected_title = <<>> THEN "null"
                             ELSE IF TitlesMatch(expected_title, answer.title)
                                  THEN "true" ELSE "false",
             !.resolved_title = answer.title]

\* a title of n times the character c
Rep(c, n) == [i \in 1..n |-> c]

\* the titles validate_doi is called with: short ones that differ in case and
\* punctuation, and ones around the lengths of the comparison
DoiTitles ==
    {<<>>,
     <<"P", "m", " ", "r">>,
     <<"P", "M", " ", "R", ":", " ", "S">>,
     <<"x">>,
     <<"-">>,
     Rep("a", PrefixLen) \o <<"m">>,
     Rep("a", PrefixLen) \o <<"p">>,
     Rep("a", PrefixLen - 1) \o <<"m">>,
     Rep("a", PrefixLen - 1) \o <<"p">>,
     Rep("a", NormalizedLen) \o <<"x">>,
     Rep("A", NormalizedLen - 1) \o <<"-", "x">>}

\* the answers of the resolver to these calls
DoiAnswers ==
    ResolverAnswers \cup {[kind |-> "ok", title |-> t] : t \in DoiTitles}

\* a call of validate_doi and its return
CallValidateDoi ==
    /\ report.cmd = "call"
    /\ report' = [cmd |-> "validate_doi",
                  rows |-> <<report.rows[1],
                             validate_doi(report.rows[1].doi, report.rows[1].title,
                                          report.rows[1].answer)>>]
    /\ UNCHANGED <<db, file_exists, exit_status, today>>

\* validate_doi called with a DOI or none, a title or none, and an answer of
\* the resolver
InitDoi ==
    /\ db = [studies |-> <<>>, claims |-> <<>>, study_claims |-> <<>>,
             evidence_usage |-> <<>>]
    /\ file_exists = FALSE
    /\ exit_status = 0
    /\ today = <<2026, 11, 5>>
    /\ \E doi \in {None, "10.1/a"}, title \in DoiTitles, answer \in DoiAnswers :
         report = [cmd |-> "call",
                   rows |-> <<[doi |-> doi, title |-> title, answer |-> answer]>>]

NextDoi == CallValidateDoi

SpecDoi == InitDoi /\ [][NextDoi]_vars

---------------------------------------------------------------------------
(* add.  The answers typed at the prompts are the record inp; a title or a  *)
(* DOI left blank is <<>> or None.                                          *)

\* the study record cmd_add appends
AddStudy(inp, title, sid, now) ==
    [study_id |-> sid, authors |-> inp.authors, pub_year |-> inp.pub_year,
     doi |-> inp.doi, title |-> IF title = <<>> THEN None ELSE title,
     quality_score |-> inp.quality, relevance_mult |-> inp.relevance,
     relevance |-> NoNum,
     final_score |-> Times(inp.quality, inp.relevance),
     direction |-> inp.direction, verified_date |-> NowYearMonth(now),
     status |-> None, superseded_by |-> NoId]

RECURSIVE AddTags(_, _, _)
\* the claim-tag loop of cmd_add: new claims, and one link per tag
AddTags(acc, sid, tags) ==
    IF tags = <<>> THEN acc
    ELSE LET tag == Head(tags)
             a1 == IF tag \in acc.claims THEN acc
                   ELSE [acc EXCEPT !.d.claims = Append(@, ClaimRecord(tag, "")),
                                    !.claims = @ \cup {tag}]
             link == [study_id |-> sid, claim_id |-> tag, direction |-> None]
         IN AddTags([a1 EXCEPT !.d.study_claims = Append(@, link)], sid, Tail(tags))

\* the gate without its test of result['valid']: an unresolved DOI passes
AddGateNoValidTest(inp, answer, confirm) ==
    IF inp.doi = None THEN "pass"
    ELSE LET result == validate_doi(inp.doi, inp.title, answer)
         IN IF result.raises THEN "raised"
            ELSE IF result.title_match = "false" /\ confirm # "y" THEN "declined"
            ELSE "pass"

\* the gate that asks for confirmation and goes on whatever the answer
AddGateAnyAnswer(inp, answer, confirm) ==
    IF inp.doi = None THEN "pass"
    ELSE LET result == validate_doi(inp.doi, inp.title, answer)
         IN IF result.raises THEN "raised"
            ELSE IF ~result.valid THEN "invalid"
            ELSE "pass"

\* does the DOI gate of cmd_add let the study through; "invalid" and
\* "declined" end the command before anything is appended, and so does
\* "raised", the exception of validate_doi that cmd_add does not catch
AddGate(inp, answer, confirm) ==
    IF inp.doi = None THEN "pass"
    ELSE LET result == validate_doi(inp.doi, inp.title, answer)
         IN IF result.raises THEN "raised"
            ELSE IF ~result.valid THEN "invalid"
            ELSE IF result.title_match = "false" /\ confirm # "y" THEN "declined"
            ELSE "pass"

\* did the gate print TITLE MISMATCH and ask for confirmation
AddAsked(inp, answer) ==
    /\ inp.doi # None
    /\ ~validate_doi(inp.doi, inp.title, answer).raises
    /\ validate_doi(inp.doi, inp.title, answer).valid
    /\ validate_doi(inp.doi, inp.title, answer).title_match = "false"

\* the title after the gate: auto-filled from the resolver if left blank
AddTitle(inp, answer) ==
    IF inp.doi # None /\ inp.title = <<>>
       /\ validate_doi(inp.doi, inp.title, answer).resolved_title # <<>>
    THEN validate_doi(inp.doi, inp.title, answer).resolved_title
    ELSE inp.title

\* what cmd_add saves, from the loaded store d
AddResult(d, inp, answer, suffix, now) ==
    LET sid == make_study_id(inp.authors, inp.pub_year, suffix)
        d1 == [d EXCEPT !.studies =
                  Append(@, AddStudy(inp, AddTitle(inp, answer), sid, now))]
    IN AddTags([d |-> d1, dois |-> {}, claims |-> ExistingClaims(d1)],
               sid, inp.claim_tags).d

\* the answers the model types
AddSmith ==
    [authors |-> "Smith et al.", pub_year |-> 2020, doi |-> "10.1/a",
     title |-> <<"P", "M">>, quality |-> 12 * Scale, relevance |-> Scale,
     direction |-> DirPlus, claim_tags |-> <<"protein->cancer">>]
AddLee ==
    [authors |-> "Lee J", pub_year |-> 2020, doi |-> None, title |-> <<>>,
     quality |-> 13 * Scale, relevance |-> Scale \div 2, direction |-> DirMinus,
     claim_tags |-> <<"protein->cancer", "protein->cancer">>]

AddInputs == {AddSmith, AddLee}

\* cmd_add
CmdAdd(inp, answer, confirm) ==
    /\ Len(load_db.studies) < MaxStudies
    /\ LET gate == AddGate(inp, answer, confirm)
       IN /\ IF gate \in {"invalid", "raised"}
             THEN exit_status' = 1 /\ UNCHANGED <<db, file_exists>>
             ELSE IF gate = "declined"
             THEN exit_status' = 0 /\ UNCHANGED <<db, file_exists>>
             ELSE /\ exit_status' = 0
                  /\ \E suffix \in SuffixesFor(Len(load_db.studies) + 1) :
                          save_db(AddResult(load_db, inp, answer, suffix, today))
          /\ report' = Printed("add", IF AddAsked(inp, answer)
                                      THEN <<"TITLE MISMATCH", gate>>
                                      ELSE <<gate>>)
    /\ UNCHANGED today

---------------------------------------------------------------------------
(* import-refs.  The page is taken as the list of references its studyRefs  *)
(* hold, each with what the regular expressions extract from it.            *)

\* the study record cmd_import_refs appends: it writes the key 'relevance',
\* not 'relevance_mult'
RefStudy(ref, sid, now) ==
    [study_id |-> sid, authors |-> ref.authors, pub_year |-> ref.year,
     doi |-> ref.doi, title |-> ref.title,
     quality_score |-> 0, relevance_mult |-> NoNum, relevance |-> Scale,
     final_score |-> 0, direction |-> DirPlus,
     verified_date |-> NowYearMonth(now), status |-> "active",
     superseded_by |-> NoId]

RECURSIVE RefRows(_, _, _, _, _)
\* the reference loop; draws[k] is the random suffix of the study of ref k
RefRows(acc, refs, draws, now, k) ==
    IF k > Len(refs) THEN acc
    ELSE LET ref == refs[k]
         IN IF MdSkipRow(ref.doi, acc.dois) THEN RefRows(acc, refs, draws, now, k + 1)
            ELSE RefRows(
                   [acc EXCEPT
                       !.d.studies = Append(@, RefStudy(ref,
                                         make_study_id(ref.authors, ref.year, draws[k]),
                                         now)),
                       !.dois = IF ref.doi # None THEN @ \cup {ref.doi} ELSE @],
                   refs, draws, now, k + 1)

\* what cmd_import_refs saves for a page, from the loaded store d
ImportRefsResult(d, refs, draws, now) ==
    RefRows([d |-> d, dois |-> ExistingDois(d), claims |-> {}], refs, draws, now, 1).d

RefSmith == [authors |-> "Smith et al.", year |-> 2020, doi |-> "10.1/a",
             title |-> <<"P", "m">>]
RefNoDoi == [authors |-> "", year |-> DefaultYear, doi |-> None, title |-> <<>>]

RefPages == SeqsUpTo({RefSmith, RefNoDoi}, MaxRows)

\* cmd_import_refs; found is json_path.exists()
CmdImportRefs(found, refs) ==
    /\ Len(load_db.studies) + Len(refs) <= MaxStudies
    /\ IF ~found
       THEN exit_status' = 1 /\ UNCHANGED <<db, file_exists>>
       ELSE /\ exit_status' = 0
            /\ \E draws \in SuffixDraws(Len(load_db.studies) + 1, Len(refs)) :
                    save_db(ImportRefsResult(load_db, refs, draws, today))
    /\ report' = Printed("import-refs", <<>>)
    /\ UNCHANGED today

---------------------------------------------------------------------------
(* verify-dois.                                                             *)

\* validate_study_doi(study, strict=True), answer being what the resolver
\* returns: "ok", "failed" or "mismatch" (the message holds TITLE MISMATCH),
\* or "raised" when validate_doi ends with an exception
validate_study_doi(study, answer) ==
    IF study.doi = None THEN "failed"
    ELSE LET title == IF study.title = None THEN <<>> ELSE study.title
             result == validate_doi(study.doi, title, answer)
         IN IF result.raises THEN "raised"
            ELSE IF ~result.valid THEN "failed"
            ELSE IF result.title_match = "false" THEN "mismatch"
            ELSE "ok"

\* the studies cmd_verify_dois goes through: all of them, or those linked to
\* a claim of the category
VerifyScope(d, category) ==
    LET claim_ids == {d.claims[i].claim_id : i \in
                        {i \in 1..Len(d.claims) :
                            get_claim_category(d.claims[i].claim_id) = category}}
        study_ids == {d.study_claims[i].study_id : i \in
                        {i \in 1..Len(d.study_claims) :
                            d.study_claims[i].claim_id \in claim_ids}}
        linked(s) == s.study_id \in study_ids
    IN IF category = None THEN d.studies ELSE SelectSeq(d.studies, linked)

\* the tallies before the loop
NoTallies ==
    [ok |-> 0, no_doi |-> 0, failed |-> 0, mismatched |-> 0, visited |-> <<>>,
     events |-> <<>>, summary |-> TRUE]

\* a loop that never pauses
VerifyNeverSleeps(i) == FALSE

\* does the loop pause before the resolver call of the i-th study in scope
VerifySleeps(i) == i > 1

\* what the loop does for the i-th study when it has a DOI: the pause, then
\* the call of validate_study_doi, which sends the one resolver request
VerifyEvents(i) ==
    (IF VerifySleeps(i) THEN <<[kind |-> "sleep", i |-> i]>> ELSE <<>>)
        \o <<[kind |-> "call", i |-> i]>>

RECURSIVE VerifyLoop(_, _, _, _)
\* the loop of cmd_verify_dois from study k on; answers[k] is what the
\* resolver returns for study k.  An exception of validate_doi is caught
\* nowhere: it ends the loop, and the command, before the summary.
VerifyLoop(acc, studies, answers, k) ==
    IF k > Len(studies) THEN acc
    ELSE LET s == studies[k]
             here == [acc EXCEPT !.visited = Append(@, s.study_id)]
             seen == [here EXCEPT !.events = @ \o VerifyEvents(k)]
         IN IF s.doi = None
            THEN VerifyLoop([here EXCEPT !.no_doi = @ + 1], studies, answers, k + 1)
            ELSE LET got == validate_study_doi(s, answers[k])
                 IN IF got = "raised" THEN [seen EXCEPT !.summary = FALSE]
                    ELSE IF got = "ok"
                    THEN VerifyLoop([seen EXCEPT !.ok = @ + 1], studies, answers, k + 1)
                    ELSE IF got = "mismatch"
                    THEN VerifyLoop([seen EXCEPT !.mismatched = @ + 1],
                                    studies, answers, k + 1)
                    ELSE VerifyLoop([seen EXCEPT !.failed = @ + 1],
                                    studies, answers, k + 1)

\* what the resolver answers during a batch
VerifyAnswers == {a \in ResolverAnswers : a.kind \in {"ok", "http404", "notobject"}}

\* cmd_verify_dois; the report holds the category, the total and the tallies,
\* and whether the summary was printed
CmdVerifyDois(category, answers) ==
    /\ LET studies == VerifyScope(load_db, category)
           tallies == VerifyLoop(NoTallies, studies, answers, 1)
       IN /\ DOMAIN answers = 1..Len(studies)
          /\ report' = [cmd |-> "verify-dois",
                        rows |-> <<category, Len(studies), tallies>>]
          /\ exit_status' = IF tallies.summary THEN 0 ELSE 1
    /\ UNCHANGED <<db, file_exists, today>>

---------------------------------------------------------------------------
(* The registry from an empty store.                                        *)

Init ==
    /\ db = EmptyDb
    /\ file_exists = FALSE
    /\ exit_status = 0
    /\ report = NoReport
    /\ today = <<2026, 11, 5>>

\* the study ids a supersede command may name: those stored, and one that
\* no study has
IdArguments == {db.studies[i].study_id : i \in 1..Len(db.studies)}
               \cup {<<"nobody", 1999, 0>>}

Next ==
    \/ CmdInit
    \/ \E found \in BOOLEAN, file \in MdFiles : CmdImportMd(found, file)
    \/ \E found \in BOOLEAN, refs \in RefPages : CmdImportRefs(found, refs)
    \/ \E inp \in AddInputs, answer \in ResolverAnswers, confirm \in {"y", "n"} :
         CmdAdd(inp, answer, confirm)
    \/ \E old_id \in IdArguments, new_id \in IdArguments : CmdSupersede(old_id, new_id)

Spec == Init /\ [][Next]_vars

\* the batch audit of the stores that add and import-md make
NextVerify ==
    \/ \E inp \in AddInputs, answer \in VerifyAnswers : CmdAdd(inp, answer, "y")
    \/ \E file \in MdFiles : CmdImportMd(TRUE, file)
    \/ \E category \in {None, "protein"},
          answers \in UNION {[1..n -> VerifyAnswers] : n \in 0..MaxStudies} :
            CmdVerifyDois(category, answers)

SpecVerify == Init /\ [][NextVerify]_vars

\* imports only, from an empty store
NextImport == \E found \in BOOLEAN, file \in MdFiles : CmdImportMdOf(found, file)

SpecImport == Init /\ [][NextImport]_vars

---------------------------------------------------------------------------
(* stale.                                                                   *)

\* the test with the cutoff month itself counted as stale, as if < were <=
IsStaleInclusive(s, cutoff) ==
    s.verified_date = NoDate \/ ~StrLess(cutoff, s.verified_date)

\* the test of cmd_stale: no verified_date, or one that sorts before cutoff
IsStale(s, cutoff) == s.verified_date = NoDate \/ StrLess(s.verified_date, cutoff)

RECURSIVE InsertByVerified(_, _)
\* x put into the sorted sequence s behind every entry that does not sort
\* after it
InsertByVerified(s, x) ==
    IF s = <<>> THEN <<x>>
    ELSE IF StrLess(x.verified_date, Head(s).verified_date)
         THEN <<x>> \o s
         ELSE <<Head(s)>> \o InsertByVerified(Tail(s), x)

RECURSIVE SortByVerified(_)
\* stale.sort(key=verified_date or ''): stable, oldest first
SortByVerified(s) ==
    IF s = <<>> THEN <<>>
    ELSE InsertByVerified(SortByVerified(SubSeq(s, 1, Len(s) - 1)), s[Len(s)])

\* the stale list of cmd_stale
StaleStudies(d, now) ==
    LET test(s) == IsStale(s, StaleCutoff(now))
    IN SortByVerified(SelectSeq(d.studies, test))

\* cmd_stale
CmdStale ==
    /\ file_exists
    /\ report' = [cmd |-> "stale", rows |-> StaleStudies(load_db, today)]
    /\ exit_status' = 0
    /\ UNCHANGED <<db, file_exists, today>>

\* the clock and the verification months of the stores handed to stale
FirstYear == 2024
StaleYears == FirstYear..(FirstYear + YearSpan)
StaleDates ==
    {<<y, m, d>> : y \in StaleYears, m \in 1..12, d \in {1, 15, 28, 29, 30, 31}}
VerifiedMonths ==
    {NoDate} \cup {StrfYearMonth(y, m) : y \in (FirstYear - 1)..(FirstYear + YearSpan),
                                         m \in 1..12}

\* a study as import-md stores it, but verified in month v
StaleStudy(i, v) == [SummaryStudy(i, 12 * Scale, DirPlus) EXCEPT !.verified_date = v]

InitStale ==
    /\ today \in {t \in StaleDates : t[3] <= DaysInMonth(t[1], t[2])}
    /\ \E v \in VerifiedMonths :
         db = [EmptyDb EXCEPT !.studies = <<StaleStudy(1, v),
                                           StaleStudy(2, StrfYearMonth(2026, 2))>>]
    /\ file_exists = TRUE
    /\ exit_status = 0
    /\ report = NoReport

NextStale == CmdStale

SpecStale == InitStale /\ [][NextStale]_vars

---------------------------------------------------------------------------
(* The read-side commands query, export-refs, enrich-all and stats, and     *)
(* the registry with every read-side command.                               *)

\* "args.claim in c['claim_id']" for the arguments of the model: the whole
\* tag, or the exposure or the outcome it is made of
IsPartOf(arg, claim_id) ==
    arg = claim_id \/ arg = SplitClaim(claim_id)[1] \/ arg = SplitClaim(claim_id)[2]

\* the claim ids cmd_query offers when it finds no study
FuzzyClaims(d, arg) ==
    LET close(c) == IsPartOf(arg, c.claim_id)
        near == SelectSeq(d.claims, close)
    IN [i \in 1..Len(near) |-> near[i].claim_id]

\* cmd_query: with no result it prints the claims that come close, or that
\* there are none, and returns; the process then ends with status 0
CmdQuery(claim, dir) ==
    /\ LET results == find_studies_for_claim(load_db, claim, dir)
       IN report' = [cmd |-> "query",
                     rows |-> <<claim, dir, results,
                                IF results = <<>> THEN FuzzyClaims(load_db, claim)
                                ELSE <<>>>>]
    /\ exit_status' = 0
    /\ UNCHANGED <<db, file_exists, today>>

\* sorted({lk['claim_id'] for lk in db['study_claims']})
SortedLinkedClaimIds(d) ==
    LET linked(c) == \E i \in 1..Len(d.study_claims) : d.study_claims[i].claim_id = c
    IN SelectSeq(ClaimOrder, linked)

\* [{**s, 'claim_id': cid} for s in find_studies_for_claim(db, cid)]
RefRowsOf(d, cid) ==
    LET studies == find_studies_for_claim(d, cid, None)
    IN [i \in 1..Len(studies) |-> [study |-> studies[i], claim_id |-> cid]]

RECURSIVE RefRowsOfAll(_, _)
RefRowsOfAll(d, cids) ==
    IF cids = <<>> THEN <<>>
    ELSE RefRowsOf(d, Head(cids)) \o RefRowsOfAll(d, Tail(cids))

\* the rows of cmd_export_refs for a claim, or for "all"
ExportRows(d, claim) ==
    IF claim = "all" THEN RefRowsOfAll(d, SortedLinkedClaimIds(d))
    ELSE RefRowsOf(d, claim)

\* cmd_export_refs: sys.exit(1) when there is no row
CmdExportRefs(claim) ==
    /\ LET rows == ExportRows(load_db, claim)
       IN /\ report' = [cmd |-> "export-refs", rows |-> <<claim, rows>>]
          /\ exit_status' = IF rows = <<>> THEN 1 ELSE 0
    /\ UNCHANGED <<db, file_exists, today>>

\* the REQUIRED_FIELDS a study lacks, of those the study records of the
\* model carry (title, doi) and those no command ever sets (journal,
\* effect_sizes)
MissingFields(s) ==
    (IF s.title = None \/ s.title = <<>> THEN <<"title">> ELSE <<>>)
    \o <<"journal">>
    \o (IF s.doi = None THEN <<"doi">> ELSE <<>>)
    \o <<"effect_sizes">>

RECURSIVE InsertByMissingDesc(_, _)
\* x put into the sorted sequence s behind every entry that misses at least
\* as many fields
InsertByMissingDesc(s, x) ==
    IF s = <<>> THEN <<x>>
    ELSE IF Len(Head(s)[2]) >= Len(x[2])
         THEN <<Head(s)>> \o InsertByMissingDesc(Tail(s), x)
         ELSE <<x>> \o s

RECURSIVE SortByMissingDesc(_)
\* incomplete.sort(key=len(missing), reverse=True): stable
SortByMissingDesc(s) ==
    IF s = <<>> THEN <<>>
    ELSE InsertByMissingDesc(SortByMissingDesc(SubSeq(s, 1, Len(s) - 1)), s[Len(s)])

\* cmd_enrich_all: the studies with a missing required field, most missing
\* fields first
CmdEnrichAll ==
    /\ LET d == load_db
           incomplete == [i \in 1..Len(d.studies) |->
                            <<d.studies[i].study_id, MissingFields(d.studies[i])>>]
       IN report' = [cmd |-> "enrich-all", rows |-> SortByMissingDesc(incomplete)]
    /\ exit_status' = 0
    /\ UNCHANGED <<db, file_exists, today>>

\* sum(1 for sc in db['study_claims'] if sc.get('direction') == dir)
LinksWithDirection(d, dir) ==
    Cardinality({i \in 1..Len(d.study_claims) : d.study_claims[i].direction = dir})

\* cmd_stats: the counts it prints
CmdStats ==
    /\ LET d == load_db
       IN report' = [cmd |-> "stats",
                     rows |-> <<Len(d.studies),
                                Cardinality({i \in 1..Len(d.studies) :
                                                d.studies[i].doi # None}),
                                LinksWithDirection(d, DirPlus),
                                LinksWithDirection(d, DirMinus),
                                LinksWithDirection(d, DirMixed),
                                Len(d.claims), Len(d.study_claims),
                                Len(d.evidence_usage)>>]
    /\ exit_status' = 0
    /\ UNCHANGED <<db, file_exists, today>>

\* the claims a query or an export may name: the tags of the model, an
\* exposure alone, and a tag no table holds
ClaimArguments == ClaimIds \cup {"protein", "fasting->mortality"}

\* the stores that add and import-md make, under every read-side command
NextRead ==
    \/ \E inp \in AddInputs, answer \in {a \in ResolverAnswers : a.kind = "ok"} :
         CmdAdd(inp, answer, "y")
    \/ \E file \in {f \in MdFiles : Len(f.rows) = 1} : CmdImportMd(TRUE, file)
    \/ \E claim \in ClaimArguments, dir \in {None, DirPlus} : CmdQuery(claim, dir)
    \/ \E claim \in ClaimArguments \cup {"all"} : CmdExportRefs(claim)
    \/ CmdSummary
    \/ \E category \in {None, "protein"} : CmdGaps(category)
    \/ CmdStale
    \/ CmdEnrichAll
    \/ CmdStats
    \/ \E category \in {None, "protein"} :
         \E answers \in [1..Len(VerifyScope(load_db, category)) ->
                            {a \in ResolverAnswers : a.kind = "ok"}] :
            CmdVerifyDois(category, answers)

SpecRead == Init /\ [][NextRead]_vars

\* the same stores, with studies marked superseded, under the three
\* commands that look an entity up
NextFind ==
    \/ \E inp \in AddInputs, answer \in {a \in ResolverAnswers : a.kind = "ok"} :
         CmdAdd(inp, answer, "y")
    \/ \E file \in {f \in MdFiles : Len(f.rows) = 1} : CmdImportMd(TRUE, file)
    \/ \E old_id \in IdArguments, new_id \in IdArguments : CmdSupersede(old_id, new_id)
    \/ \E claim \in ClaimArguments, dir \in {None, DirPlus} : CmdQuery(claim, dir)
    \/ \E claim \in ClaimArguments \cup {"all"} : CmdExportRefs(claim)

SpecFind == Init /\ [][NextFind]_vars

---------------------------------------------------------------------------
(* The invocations step by step: each one loads studies.json, works on the  *)
(* snapshot in its own memory and saves it; nothing coordinates two         *)
(* invocations that run at the same time.  Here db is the content of the    *)
(* file, which may be a text that load_db cannot turn into a store, and     *)
(* the report holds the two invocations on their way.                       *)

\* contents of studies.json that are no store: a text that is not JSON, and
\* a JSON object without the four collections
NotJson == [text |-> "not json"]
NoCollections == [text |-> "{}"]

\* does the content have the collections the commands index
IsStore(content) == "studies" \in DOMAIN content

\* does json.loads in load_db raise on the content of the file
LoadRaises == file_exists /\ db = NotJson

\* an invocation that ended before save_db, with its exit status; loaded
\* tells whether load_db had returned
TxnEnded(call, loaded, status) ==
    [pc |-> "ended", call |-> call, loaded |-> loaded, exit |-> status,
     base |-> EmptyDb, snap |-> EmptyDb, loaded_at |-> 0, saved_at |-> 0]

\* an invocation that has loaded base and holds snap, about to call save_db
TxnReady(call, base, snap) ==
    [pc |-> "ready", call |-> call, loaded |-> TRUE, exit |-> 0,
     base |-> base, snap |-> snap, loaded_at |-> 0, saved_at |-> 0]

\* no invocation
TxnIdle ==
    [pc |-> "idle", call |-> [cmd |-> ""], loaded |-> FALSE, exit |-> 0,
     base |-> EmptyDb, snap |-> EmptyDb, loaded_at |-> 0, saved_at |-> 0]

\* the snapshot cmd_supersede saves
SupersedeResult(d, old_id, new_id) ==
    [d EXCEPT !.studies[FirstStudyWithId(d, old_id)] =
        [@ EXCEPT !.status = "superseded", !.superseded_by = new_id]]

\* an import that takes a file it cannot read for an empty store
RunImportMdForgiving(call) ==
    IF ~call.found THEN {TxnEnded(call, FALSE, 1)}
    ELSE IF LoadRaises \/ ~IsStore(load_db)
    THEN {TxnReady(call, EmptyDb, d) : d \in ImportMdResults(EmptyDb, call.file)}
    ELSE {TxnReady(call, load_db, d) : d \in ImportMdResults(load_db, call.file)}

\* cmd_import_md up to its save_db: the file must exist, then load_db, then
\* the first db['studies'], then the rows
RunImportMd(call) ==
    IF ~call.found THEN {TxnEnded(call, FALSE, 1)}
    ELSE IF LoadRaises THEN {TxnEnded(call, FALSE, 1)}
    ELSE IF ~IsStore(load_db) THEN {TxnEnded(call, TRUE, 1)}
    ELSE {TxnReady(call, load_db, d) : d \in ImportMdResults(load_db, call.file)}

\* cmd_import_refs up to its save_db: the page must exist and be JSON, then
\* load_db, then the first db['studies'], then the references
RunImportRefs(call) ==
    IF ~call.found \/ ~call.page_is_json THEN {TxnEnded(call, FALSE, 1)}
    ELSE IF LoadRaises THEN {TxnEnded(call, FALSE, 1)}
    ELSE IF ~IsStore(load_db) THEN {TxnEnded(call, TRUE, 1)}
    ELSE {TxnReady(call, load_db, ImportRefsResult(load_db, call.refs, draws, today)) :
             draws \in SuffixDraws(Len(load_db.studies) + 1, Len(call.refs))}

\* cmd_add up to its save_db: load_db, then int() of the year typed, then
\* the gate, then db['studies'].append
RunAdd(call) ==
    IF LoadRaises THEN {TxnEnded(call, FALSE, 1)}
    ELSE IF ~call.year_is_int THEN {TxnEnded(call, TRUE, 1)}
    ELSE LET gate == AddGate(call.inp, call.answer, call.confirm)
         IN IF gate \in {"invalid", "raised"} THEN {TxnEnded(call, TRUE, 1)}
            ELSE IF gate = "declined" THEN {TxnEnded(call, TRUE, 0)}
            ELSE IF ~IsStore(load_db) THEN {TxnEnded(call, TRUE, 1)}
            ELSE {TxnReady(call, load_db,
                           AddResult(load_db, call.inp, call.answer, suffix, today)) :
                     suffix \in SuffixesFor(Len(load_db.studies) + 1)}

\* cmd_supersede up to its save_db: load_db, then the two searches of
\* db['studies']
RunSupersede(call) ==
    IF LoadRaises THEN {TxnEnded(call, FALSE, 1)}
    ELSE IF ~IsStore(load_db) THEN {TxnEnded(call, TRUE, 1)}
    ELSE IF ~SupersedeFound(load_db, call.old_id, call.new_id)
    THEN {TxnEnded(call, TRUE, 1)}
    ELSE {TxnReady(call, load_db, SupersedeResult(load_db, call.old_id, call.new_id))}

\* what an invocation may hold when it reaches its save_db or ends before it
Run(call) ==
    CASE call.cmd = "import-md"   -> RunImportMd(call)
      [] call.cmd = "import-refs" -> RunImportRefs(call)
      [] call.cmd = "add"         -> RunAdd(call)
      [] call.cmd = "supersede"   -> RunSupersede(call)

\* the ids a supersede may name: those of the store in the file, if it is
\* one, and one that no study has
TxnIds == IF IsStore(db) THEN IdArguments ELSE {<<"nobody", 1999, 0>>}

\* the command lines of the model, and what the operator types: a table of
\* one row that may not exist, a page of one reference that may not exist
\* or not be JSON, an add whose year may not be a number and whose DOI may
\* not resolve, and a supersede of the ids of the store or of no study
TxnCalls ==
    {[cmd |-> "import-md", found |-> f, file |-> file] :
        f \in BOOLEAN, file \in {x \in MdFiles : x.rows \in {<<RowSmith>>, <<RowLee>>}}}
    \cup {[cmd |-> "import-refs", found |-> fj[1], page_is_json |-> fj[2],
            refs |-> <<RefSmith>>] :
              fj \in {<<TRUE, TRUE>>, <<TRUE, FALSE>>, <<FALSE, FALSE>>}}
    \cup {[cmd |-> "add", inp |-> inp, year_is_int |-> y, answer |-> answer,
            confirm |-> "y"] :
              inp \in AddInputs, y \in BOOLEAN,
              answer \in {a \in ResolverAnswers : a.kind \in {"ok", "http404"}}}
    \cup {[cmd |-> "supersede", old_id |-> o, new_id |-> n] :
              o \in TxnIds, n \in TxnIds}

Procs == {1, 2}

\* the saves so far
SavesSoFar == Cardinality({p \in Procs : report.rows[p].pc = "done"})

\* the part of an invocation before save_db, in one step: it ends there, or
\* it holds the snapshot it is about to write
TxnLoad(p, call) ==
    /\ report.cmd = "run" /\ report.rows[p].pc = "idle"
    /\ \E r \in Run(call) :
         /\ report' = [report EXCEPT !.rows[p] = [r EXCEPT !.loaded_at = SavesSoFar]]
         /\ exit_status' = IF r.pc = "ended" THEN r.exit ELSE exit_status
    /\ UNCHANGED <<db, file_exists, today>>

\* a lock: the save of an invocation that loaded before another one saved
\* is refused
TxnSavedIfFresh(p) ==
    IF report.rows[p].loaded_at = SavesSoFar THEN report.rows[p].snap ELSE db

\* what save_db writes: the snapshot of the invocation, whatever the file
\* holds by now
TxnSaved(p) == report.rows[p].snap

\* save_db of an invocation, and its end with status 0
TxnSave(p) ==
    /\ report.cmd = "run" /\ report.rows[p].pc = "ready"
    /\ save_db(TxnSaved(p))
    /\ report' = [report EXCEPT !.rows[p].pc = "done",
                                !.rows[p].saved_at = SavesSoFar + 1]
    /\ exit_status' = 0
    /\ UNCHANGED today

\* the stores two invocations may find: an empty one, the one an add made
\* of it, and the one a second add made of that
StoreOfOne ==
    AddResult(EmptyDb, AddSmith, [kind |-> "ok", title |-> <<"P", "m", " ", "r">>], 1,
              <<2026, 11, 5>>)
StoreOfTwo ==
    AddResult(StoreOfOne, AddLee, [kind |-> "ok", title |-> <<"x">>], 1, <<2026, 11, 5>>)

\* studies.json at the start: absent, a store, or no store at all
InitTxn ==
    /\ \/ db = EmptyDb /\ file_exists = FALSE
       \/ db \in {EmptyDb, StoreOfOne, StoreOfTwo, NotJson, NoCollections}
          /\ file_exists = TRUE
    /\ exit_status = 0
    /\ report = [cmd |-> "run", rows |-> <<TxnIdle, TxnIdle>>]
    /\ today = <<2026, 11, 5>>

NextTxn ==
    \/ \E p \in Procs, call \in TxnCalls : TxnLoad(p, call)
    \/ \E p \in Procs : TxnSave(p)

SpecTxn == InitTxn /\ [][NextTxn]_vars

---------------------------------------------------------------------------
(* version_manager.py on one file, here studies.json: db is the content of  *)
(* the file, and the report holds the backup files under .versions/ by the  *)
(* second of their name, the lines of versions.log, and the clock.          *)

\* the log holds at most MaxVersions lines, the clock runs over
\* 0..MaxSeconds
MaxVersions == 4
MaxSeconds == 2

\* no backup file of that name
NoBackup == [text |-> "absent"]

\* the contents the file is edited to
FileContents == {EmptyDb, StoreOfOne, StoreOfTwo}

\* _timestamp(): the clock to the second
Timestamp(now) == now

\* _backup_path(original, ts) for the one file: the name is made of the
\* file's name and ts only
BackupPath(ts) == ts

\* the names a backup file may have
BackupNames == 0..MaxSeconds

\* the state of .versions/ that the report holds
Backups == report.rows[1]
VersionsLog == report.rows[2]
Clock == report.rows[3]

\* version_file as a function: the backups and the log after it.
\* shutil.copy2 overwrites a backup of the same name; the log line keeps,
\* beside the path of the backup, the content the file had (which the
\* program does not store anywhere else)
VersionFileResult(backups, log, content, now, reason) ==
    LET dst == BackupPath(Timestamp(now))
    IN [backups |-> [backups EXCEPT ![dst] = content],
        log |-> Append(log, [action |-> "version", backup |-> dst,
                             content |-> content, reason |-> reason])]

\* version_file(filepath): the file must exist
VersionFile ==
    /\ report.cmd = "versions" /\ file_exists
    /\ Len(VersionsLog) < MaxVersions
    /\ LET r == VersionFileResult(Backups, VersionsLog, db, Clock, "")
       IN report' = [report EXCEPT !.rows = <<r.backups, r.log, Clock>>]
    /\ UNCHANGED <<db, file_exists, exit_status, today>>

\* list_versions(filepath): the "version" lines of the log, newest first
\* (the timestamps of the lines have microseconds: a later line is newer)
RECURSIVE Reversed(_)
Reversed(s) == IF s = <<>> THEN <<>> ELSE Append(Reversed(Tail(s)), Head(s))
ListVersions(log) ==
    LET isversion(e) == e.action = "version"
    IN Reversed(SelectSeq(log, isversion))

\* rollback(filepath, timestamp): the newest version whose backup name has
\* the timestamp (any version if none is given) is copied over the file,
\* after a version of the file as it is has been taken
Rollback(given, timestamp) ==
    /\ report.cmd = "versions" /\ file_exists
    /\ Len(VersionsLog) + 2 <= MaxVersions
    /\ LET versions == ListVersions(VersionsLog)
           wanted(v) == ~given \/ v.backup = BackupPath(timestamp)
           match == SelectSeq(versions, wanted)
       IN IF match = <<>>
          THEN /\ exit_status' = 1
               /\ UNCHANGED <<db, report>>
          ELSE LET chosen == match[1]
                   safe == VersionFileResult(Backups, VersionsLog, db, Clock,
                                             "pre-rollback safety snapshot")
               IN /\ db' = safe.backups[chosen.backup]
                  /\ report' = [report EXCEPT !.rows =
                        <<safe.backups,
                          Append(safe.log, [action |-> "rollback",
                                            backup |-> chosen.backup,
                                            content |-> chosen.content,
                                            reason |-> "restored"]),
                          Clock>>]
                  /\ exit_status' = 0
    /\ UNCHANGED <<file_exists, today>>

\* an edit of the file
EditFile ==
    /\ report.cmd = "versions"
    /\ \E content \in FileContents \ {db} : db' = content
    /\ UNCHANGED <<file_exists, exit_status, report, today>>

\* a second passes
Tick ==
    /\ report.cmd = "versions"
    /\ Clock < MaxSeconds
    /\ report' = [report EXCEPT !.rows[3] = Clock + 1]
    /\ UNCHANGED <<db, file_exists, exit_status, today>>

InitVersions ==
    /\ db = EmptyDb
    /\ file_exists = TRUE
    /\ exit_status = 0
    /\ report = [cmd |-> "versions",
                 rows |-> <<[n \in BackupNames |-> NoBackup], <<>>, 0>>]
    /\ today = <<2026, 11, 5>>

NextVersions ==
    \/ VersionFile
    \/ \E given \in BOOLEAN, timestamp \in 0..MaxSeconds :
            Rollback(given, timestamp)
    \/ EditFile
    \/ Tick

SpecVersions == InitVersions /\ [][NextVersions]_vars

---------------------------------------------------------------------------
(* Properties.  The partitions of a claim are taken from the store itself:  *)
(* the studies a link ties to the claim, by the direction of that link.     *)

\* indices of the studies that some link ties to claim cid
LinkedTo(cid) ==
    {i \in 1..Len(db.studies) :
        \E k \in 1..Len(db.study_claims) :
            /\ db.study_claims[k].claim_id = cid
            /\ db.study_claims[k].study_id = db.studies[i].study_id}

\* the direction key of the link between study i and claim cid (None if
\* the link has none)
LinkDirection(i, cid) ==
    LET k == CHOOSE k \in 1..Len(db.study_claims) :
                 /\ db.study_claims[k].claim_id = cid
                 /\ db.study_claims[k].study_id = db.studies[i].study_id
    IN db.study_claims[k].direction

WithDirection(cid, dir) == {i \in LinkedTo(cid) : LinkDirection(i, cid) = dir}

\* the highest final_score among the studies with indices in S, 0 if none
TopOf(S) ==
    IF S = {} THEN 0
    ELSE LET scores == {db.studies[i].final_score : i \in S}
         IN CHOOSE x \in scores : \A y \in scores : x >= y

StoredClaims == {db.claims[i].claim_id : i \in 1..Len(db.claims)}

SummaryRan == report.cmd = "summary"

\* C1: no two studies of the store share a non-null doi (an add whose DOI
\* is already stored adds no study).
NoTwoStudiesShareDoi ==
    \A i, j \in 1..Len(db.studies) :
        (i # j /\ db.studies[i].doi # None) => db.studies[i].doi # db.studies[j].doi

\* C2: every study carries quality_score, relevance_mult and final_score,
\* and final_score = quality_score * relevance_mult exactly.
FinalScoreIsProduct ==
    \A i \in 1..Len(db.studies) :
        LET s == db.studies[i]
        IN /\ s.quality_score # NoNum
           /\ s.relevance_mult # NoNum
           /\ s.final_score # NoNum
           /\ s.final_score * Scale = s.quality_score * s.relevance_mult

\* the direction the claim expects a linked study to be counted under: the
\* link's if the link has one, else the study's own
EffectiveDirection(i, cid) ==
    IF LinkDirection(i, cid) # None THEN LinkDirection(i, cid)
    ELSE db.studies[i].direction

CountEffective(cid, dir) ==
    Cardinality({i \in LinkedTo(cid) : EffectiveDirection(i, cid) = dir})

\* C3: the summary partitions the studies of a claim by the link's direction
\* where the link has one and by the study's own direction where it has none.
PartitionedByEffectiveDirection ==
    SummaryRan =>
        \A k \in 1..Len(report.rows) :
            LET r == report.rows[k]
            IN /\ r.n_plus = CountEffective(r.claim, DirPlus)
               /\ r.n_minus = CountEffective(r.claim, DirMinus)
               /\ r.n_mixed = CountEffective(r.claim, DirMixed)

\* the net verdict the priority table gives for claim cid
TableNet(cid) ==
    LET P == WithDirection(cid, DirPlus)
        M == WithDirection(cid, DirMinus)
        X == WithDirection(cid, DirMixed)
    IN IF P # {} /\ M = {} /\ X = {} THEN DirPlus
       ELSE IF M # {} /\ P = {} THEN DirMinus
       ELSE IF X # {} /\ P = {} /\ M = {} THEN DirMixed
       ELSE IF TopOf(M) > TopOf(P) THEN ContestedMinus
       ELSE ContestedPlus

\* C4: every claim with a linked study has a summary row whose net is the
\* one the priority table gives: '+', MINUS, PLUS-MINUS for the three pure
\* cases, else the side with the strictly higher top score, contested, the
\* plus side on a tie.
NetFollowsPriorityTable ==
    SummaryRan =>
        \A cid \in StoredClaims :
            LinkedTo(cid) # {} =>
                \E k \in 1..Len(report.rows) :
                    report.rows[k].claim = cid /\ report.rows[k].net = TableNet(cid)

\* C4 witness: a summary with a claim that the minus side wins, contested
MinusWinsContested ==
    /\ SummaryRan
    /\ \E k \in 1..Len(report.rows) :
         /\ report.rows[k].net = ContestedMinus
         /\ WithDirection(report.rows[k].claim, DirPlus) # {}
         /\ TopOf(WithDirection(report.rows[k].claim, DirMinus))
              > TopOf(WithDirection(report.rows[k].claim, DirPlus))

\* C5: a net with the '(contested)' annotation is reported only for a claim
\* that has both a '+' study and a MINUS study.
ContestedOnlyWithBothSides ==
    SummaryRan =>
        \A k \in 1..Len(report.rows) :
            report.rows[k].net \in {ContestedPlus, ContestedMinus} =>
                /\ WithDirection(report.rows[k].claim, DirPlus) # {}
                /\ WithDirection(report.rows[k].claim, DirMinus) # {}

\* the tier of a top score
TierOf(top) ==
    IF top >= 12 * Scale THEN "Strong"
    ELSE IF top >= 10 * Scale /\ top < 12 * Scale THEN "Moderate"
    ELSE "Limited"

\* C6: the confidence of a claim's row is the tier of the highest
\* final_score among all the studies linked to the claim, of any direction:
\* Strong from 12, Moderate from 10 to below 12, Limited otherwise.
ConfidenceIsTierOfTop ==
    SummaryRan =>
        \A cid \in StoredClaims :
            LinkedTo(cid) # {} =>
                \E k \in 1..Len(report.rows) :
                    /\ report.rows[k].claim = cid
                    /\ report.rows[k].confidence = TierOf(TopOf(LinkedTo(cid)))

\* C6 witness: a claim rated Moderate on a top score of exactly 10 that a
\* study outside the plus partition holds
ModerateAtThreshold ==
    /\ SummaryRan
    /\ \E k \in 1..Len(report.rows) :
         /\ report.rows[k].confidence = "Moderate"
         /\ TopOf(LinkedTo(report.rows[k].claim)) = 10 * Scale
         /\ TopOf(WithDirection(report.rows[k].claim, DirPlus)) < 10 * Scale

\* the gap flag the claim states for claim cid
StatedGap(cid) ==
    LET P == WithDirection(cid, DirPlus)
        M == WithDirection(cid, DirMinus)
        X == WithDirection(cid, DirMixed)
    IN IF P # {} /\ M = {} /\ X = {} THEN "Need contradicting study"
       ELSE IF M # {} /\ P = {} THEN "Need supporting study"
       ELSE ""

\* C7: the gap of every summary row is 'Need contradicting study' exactly
\* when plus is non-empty and minus and mixed are empty, 'Need supporting
\* study' exactly when minus is non-empty and plus is empty, '' otherwise.
GapFlagAsStated ==
    SummaryRan =>
        \A k \in 1..Len(report.rows) :
            report.rows[k].gap = StatedGap(report.rows[k].claim)

\* C7 witness: a claim with supporting and conditional studies only, whose
\* row carries no gap
NoGapWithMixed ==
    /\ SummaryRan
    /\ \E k \in 1..Len(report.rows) :
         /\ report.rows[k].gap = ""
         /\ WithDirection(report.rows[k].claim, DirPlus) # {}
         /\ WithDirection(report.rows[k].claim, DirMixed) # {}
         /\ WithDirection(report.rows[k].claim, DirMinus) = {}

\* C8: no row of the summary, and none of the gaps report, is for a claim
\* that has no study linked to it.
NoRowWithoutStudies ==
    report.cmd \in {"summary", "gaps"} =>
        \A k \in 1..Len(report.rows) : LinkedTo(report.rows[k].claim) # {}

\* C8 witness: a summary with a row, of a store that also holds a claim
\* without any linked study
ClaimWithoutStudiesLeftOut ==
    /\ SummaryRan
    /\ Len(report.rows) >= 1
    /\ \E cid \in StoredClaims :
         /\ LinkedTo(cid) = {}
         /\ \A k \in 1..Len(report.rows) : report.rows[k].claim # cid

\* the last day of the month before the month of t
EndOfMonthBefore(t) ==
    IF t[2] > 1 THEN <<t[1], t[2] - 1, DaysInMonth(t[1], t[2] - 1)>>
    ELSE <<t[1] - 1, 12, 31>>

RECURSIVE DaysBack(_, _)
\* the date n days before t, stepping back a month at a time
DaysBack(t, n) ==
    IF n < t[3] THEN <<t[1], t[2], t[3] - n>>
    ELSE DaysBack(EndOfMonthBefore(t), n - t[3])

\* months since year 0 of a date, and of a stored year-month string
MonthOfDate(t) == 12 * t[1] + t[2]
MonthOfString(v) ==
    12 * (1000 * (v[1] - 48) + 100 * (v[2] - 48) + 10 * (v[3] - 48) + (v[4] - 48))
    + 10 * (v[6] - 48) + (v[7] - 48)

\* the month of today - 180 days
CutoffMonth == MonthOfDate(DaysBack(today, 180))

\* is study i in the stale list
ReportedStale(i) ==
    \E k \in 1..Len(report.rows) : report.rows[k].study_id = db.studies[i].study_id

\* C9 as stated: a study is stale when its verified_date is missing or is
\* the month of today - 180 days, and not stale one month after that month.
StaleAtCutoffMonth ==
    report.cmd = "stale" =>
        \A i \in 1..Len(db.studies) :
            LET v == db.studies[i].verified_date
            IN /\ v = NoDate => ReportedStale(i)
               /\ (v # NoDate /\ MonthOfString(v) = CutoffMonth) => ReportedStale(i)
               /\ (v # NoDate /\ MonthOfString(v) = CutoffMonth + 1) => ~ReportedStale(i)

\* C9 amended: a study is stale exactly when its verified_date is missing or
\* its month is strictly before the month of today - 180 days; a study
\* verified in that month itself, or later, is not stale.
StaleStrictlyBeforeCutoffMonth ==
    report.cmd = "stale" =>
        \A i \in 1..Len(db.studies) :
            LET v == db.studies[i].verified_date
            IN ReportedStale(i) <=> (v = NoDate \/ MonthOfString(v) < CutoffMonth)

\* C9 witness: a stale report that leaves out a study verified in the
\* cutoff month and lists one verified the month before
CutoffMonthNotStale ==
    /\ report.cmd = "stale"
    /\ db.studies[2].verified_date # NoDate
    /\ MonthOfString(db.studies[2].verified_date) = CutoffMonth
    /\ ~ReportedStale(2)
    /\ db.studies[1].verified_date # NoDate
    /\ MonthOfString(db.studies[1].verified_date) = CutoffMonth - 1
    /\ ReportedStale(1)

\* C10: every study marked superseded names, as superseded_by, a stored
\* study other than itself (supersede(A, A) fails).
SupersededByAnotherStudy ==
    \A i \in 1..Len(db.studies) :
        db.studies[i].status = "superseded" =>
            /\ db.studies[i].superseded_by # db.studies[i].study_id
            /\ \E j \in 1..Len(db.studies) :
                 db.studies[j].study_id = db.studies[i].superseded_by

\* is there a stored study with the id
Stored(id) == \E i \in 1..Len(db.studies) : db.studies[i].study_id = id

\* the step leaves the persisted store as it was, and saves nothing
StoreUntouched == db' = db /\ file_exists' = file_exists

\* C11: a supersede that names an id no stored study has ends with a
\* non-zero exit status and leaves the persisted store unchanged, with no
\* save performed.
SupersedeAbsentFails ==
    [][\A o \in IdArguments, n \in IdArguments :
          (CmdSupersede(o, n) /\ (~Stored(o) \/ ~Stored(n)))
              => (exit_status' # 0 /\ StoreUntouched)]_vars

\* C11 witness: a supersede has failed on a store that holds studies, none
\* of them marked
SupersedeRefused ==
    /\ report.cmd = "supersede"
    /\ exit_status = 1
    /\ db.studies # <<>>
    /\ Superseded(db) = {}

\* C12: a supersede naming two stored studies marks the old study
\* superseded by new_id and changes nothing else: the new study, every other
\* study, the claims, the links and the usage records stay as they were.
SupersedeChangesOnlyOldStudy ==
    [][\A o \in IdArguments, n \in IdArguments :
          (CmdSupersede(o, n) /\ Stored(o) /\ Stored(n))
              => /\ Len(db'.studies) = Len(db.studies)
                 /\ \E i \in 1..Len(db.studies) :
                       /\ db.studies[i].study_id = o
                       /\ db'.studies[i] = [db.studies[i] EXCEPT
                                               !.status = "superseded",
                                               !.superseded_by = n]
                       /\ \A j \in 1..Len(db.studies) :
                             j # i => db'.studies[j] = db.studies[j]
                 /\ \A j \in 1..Len(db.studies) :
                       db.studies[j].study_id = n => db'.studies[j] = db.studies[j]
                 /\ db'.claims = db.claims
                 /\ db'.study_claims = db.study_claims
                 /\ db'.evidence_usage = db.evidence_usage]_vars

\* what a second import of file f may save, from the store d
Reimported(d, f) ==
    ImportMdResults(d, f)

\* does every study row of the file carry a DOI
AllRowsHaveDoi(f) == \A k \in 1..Len(f.rows) : DoiOfCell(f.rows[k].doi) # None

\* the step is a successful import of the file that the command before it
\* imported successfully
SecondImport ==
    /\ report.cmd = "import-md" /\ exit_status = 0
    /\ report'.cmd = "import-md" /\ exit_status' = 0
    /\ report'.rows = report.rows

\* C13 as stated: importing a table that has just been imported adds no
\* study, link or usage record: the store after the second import equals the
\* store after the first.
ImportTwiceSameStore == [][SecondImport => db' = db]_vars

\* C13 amended: importing a table whose rows all carry a DOI, right after it
\* has been imported, skips every row and leaves the store as the first
\* import left it (a row without a DOI is stored again).
ImportTwiceSameStoreWithDois ==
    [][(SecondImport /\ AllRowsHaveDoi(report.rows[1])) => db' = db]_vars

\* C13 witness: an import has stored a study with a DOI, link and usage
\* record, and importing a table of rows with that DOI again changes nothing
ReimportChangesNothing ==
    /\ report.cmd = "import-md"
    /\ exit_status = 0
    /\ db.studies # <<>>
    /\ db.study_claims # <<>>
    /\ db.evidence_usage # <<>>
    /\ AllRowsHaveDoi(report.rows[1])
    /\ Reimported(db, report.rows[1]) = {db}

\* C14: no command removes a study: every study_id stored before a step is
\* stored after it.
NoStudyRemoved ==
    [][\A i \in 1..Len(db.studies) :
          \E j \in 1..Len(db'.studies) :
              db'.studies[j].study_id = db.studies[i].study_id]_vars

\* C14 witness: init has run on a store that holds a superseded study, and
\* the study is still stored
RetiredStudyKept ==
    /\ report.cmd = "init"
    /\ \E i \in 1..Len(db.studies) : db.studies[i].status = "superseded"

\* C15: no two stored studies share a study_id.
UniqueStudyIds ==
    \A i \in 1..Len(db.studies), j \in 1..Len(db.studies) :
        i # j => db.studies[i].study_id # db.studies[j].study_id

\* the inputs of the add commands of the model
AddCommands == AddInputs \X ResolverAnswers \X {"y", "n"}

\* does validation of the DOI typed in c return valid = false
ValidationFails(c) ==
    /\ c[1].doi # None
    /\ ~validate_doi(c[1].doi, c[1].title, c[2]).raises
    /\ ~validate_doi(c[1].doi, c[1].title, c[2]).valid

\* does the DOI typed in c resolve to a title that does not match
TitleMismatch(c) ==
    /\ c[1].doi # None
    /\ c[2].kind = "ok"
    /\ c[1].title # <<>>
    /\ ~TitlesMatch(c[1].title, c[2].title)

\* C16: an add whose DOI validation returns valid = false exits with a
\* non-zero status and leaves the persisted store exactly as it was.
AddRejectsInvalidDoi ==
    [][report'.cmd = "add" =>
          \A c \in {x \in AddCommands : ValidationFails(x)} :
              CmdAdd(c[1], c[2], c[3]) => (exit_status' # 0 /\ StoreUntouched)]_vars

\* C16 witness: an add has been rejected at the gate, on a store that holds
\* a study
AddRejected ==
    /\ report = Printed("add", <<"invalid">>)
    /\ exit_status = 1
    /\ db.studies # <<>>

\* C17: when the DOI of an add resolves to a title that does not match, the
\* study is saved only after the answer 'y'; with any other answer nothing
\* is written to the store.
AddNeedsConfirmation ==
    [][report'.cmd = "add" =>
          \A c \in {x \in AddCommands : TitleMismatch(x)} :
              CmdAdd(c[1], c[2], c[3])
                  => IF c[3] = "y"
                     THEN Len(db'.studies) = Len(db.studies) + 1
                     ELSE StoreUntouched]_vars

\* C17 witness: the operator was asked and did not confirm, and the command
\* ended without a save; there is still no store file
AddDeclined ==
    /\ report = Printed("add", <<"TITLE MISMATCH", "declined">>)
    /\ exit_status = 0
    /\ ~file_exists

\* the call whose return the report holds, and the return
DoiCall == report.rows[1]
DoiResult == report.rows[2]

\* C18: validate_doi never raises, and tells its outcomes apart: a 404 gives
\* valid = false with a 'DOI not found' error, another HTTP error status
\* valid = false with an HTTP error naming the status, a transport failure
\* valid = false with a network error, and only a successful response
\* valid = true.
ValidateDoiNeverRaises ==
    (report.cmd = "validate_doi" /\ DoiCall.doi # None) =>
        /\ ~DoiResult.raises
        /\ DoiCall.answer.kind = "http404" =>
              (~DoiResult.valid /\ DoiResult.error = "DOI not found (404)")
        /\ DoiCall.answer.kind = "http500" =>
              (~DoiResult.valid /\ DoiResult.error = "HTTP 500 resolving DOI")
        /\ DoiCall.answer.kind = "network" =>
              (~DoiResult.valid /\ DoiResult.error = "Network error resolving DOI")
        /\ DoiResult.valid => DoiCall.answer.kind \in {"ok", "notobject", "badjson"}

\* a title lower-cased and stripped of what is no letter or digit, whole
NormalizeWholeTitle(t) ==
    SelectSeq([i \in 1..Len(t) |-> LowerChar(t[i])], IsLowerAlnum)

\* the match as the claim words it, on the whole normalized titles
StatedMatch(expected, resolved) ==
    LET e == NormalizeWholeTitle(expected)
        r == NormalizeWholeTitle(resolved)
    IN \/ Prefix(e, PrefixLen) = Prefix(r, PrefixLen)
       \/ IsSubstring(e, r)
       \/ IsSubstring(r, e)

\* C19: with an expected title and a DOI that resolves, title_match is true
\* exactly when the first 40 characters of the normalized titles are equal or
\* one whole normalized title contains the other, and false otherwise.
TitleMatchAsStated ==
    (/\ report.cmd = "validate_doi"
     /\ DoiCall.doi # None
     /\ DoiCall.title # <<>>
     /\ DoiCall.answer.kind = "ok") =>
        DoiResult.title_match =
            IF StatedMatch(DoiCall.title, DoiCall.answer.title) THEN "true" ELSE "false"

\* the ids of the studies of a sequence, in order
IdsOf(studies) == [k \in 1..Len(studies) |-> studies[k].study_id]

\* C20: verify-dois never aborts on a bad study: it visits every study in
\* scope once, counts it in one of the four tallies, and prints the summary
\* with the four counts summing to the total.
VerifyDoisCountsEveryStudy ==
    report.cmd = "verify-dois" =>
        LET total == report.rows[2]
            t == report.rows[3]
        IN /\ t.summary
           /\ exit_status = 0
           /\ t.visited = IdsOf(VerifyScope(db, report.rows[1]))
           /\ t.ok + t.no_doi + t.failed + t.mismatched = total

\* has claim cid no link to a stored study
NothingLinked(cid) == LinkedTo(cid) = {}

\* C22: query and export-refs for a claim with no linked study, and
\* supersede with an id that no study has, end with a non-zero exit status;
\* the same commands end with 0 when the entity is found.
NotFoundExitsNonZero ==
    [][/\ report'.cmd = "query" =>
            \A c \in ClaimArguments :
                CmdQuery(c, None) => (exit_status' # 0 <=> NothingLinked(c))
       /\ report'.cmd = "export-refs" =>
            \A c \in ClaimArguments :
                CmdExportRefs(c) => (exit_status' # 0 <=> NothingLinked(c))
       /\ report'.cmd = "supersede" =>
            \A o \in IdArguments, n \in IdArguments :
                CmdSupersede(o, n) => (exit_status' # 0 <=> (~Stored(o) \/ ~Stored(n)))
      ]_vars

\* does something go wrong before the save of the invocation: the snapshot
\* in the file is badly formed, or the input is (no table, no page or a page
\* that is not JSON, a year that is no number)
FailsBeforeSave(call) ==
    \/ file_exists /\ ~IsStore(db)
    \/ call.cmd \in {"import-md", "import-refs"} /\ ~call.found
    \/ call.cmd = "import-refs" /\ ~call.page_is_json
    \/ call.cmd = "add" /\ ~call.year_is_int

\* C23: in a mutating command the load precedes the one save, which is its
\* last access to the store; when loading or a step before the save fails,
\* the command ends without a save and the file keeps its content.
LoadThenSingleSave ==
    [][/\ (\A p \in Procs : ~(report.rows[p].pc = "ready" /\ report'.rows[p].pc = "done"))
            => StoreUntouched
       /\ \A p \in Procs :
            /\ (report.rows[p].pc = "idle" /\ report'.rows[p].pc # "idle") =>
                  (FailsBeforeSave(report'.rows[p].call) =>
                      (report'.rows[p].pc = "ended" /\ exit_status' # 0))
            /\ report.rows[p].pc \in {"ended", "done"} =>
                  report'.rows[p].pc = report.rows[p].pc
            /\ (report.rows[p].pc = "ready" /\ report'.rows[p].pc # "ready") =>
                  (report.rows[p].loaded /\ report'.rows[p].pc = "done")
      ]_vars

\* C23 witness: an import of a table that exists has ended at load_db on a
\* file that is not JSON, and an add on the same file at a year that is no
\* number; the file is as it was
TxnFailedBeforeSave ==
    /\ db = NotJson /\ file_exists
    /\ report.cmd = "run"
    /\ \E p \in Procs :
         /\ report.rows[p].pc = "ended" /\ ~report.rows[p].loaded
         /\ report.rows[p].call.cmd = "import-md" /\ report.rows[p].call.found
    /\ \E p \in Procs :
         /\ report.rows[p].pc = "ended"
         /\ report.rows[p].call.cmd = "add" /\ ~report.rows[p].call.year_is_int

\* what the command of an invocation makes of the store base when it runs
\* with nothing else
Alone(call, base) ==
    CASE call.cmd = "import-md" -> ImportMdResults(base, call.file)
      [] call.cmd = "import-refs" ->
            {ImportRefsResult(base, call.refs, draws, today) :
                draws \in SuffixDraws(Len(base.studies) + 1, Len(call.refs))}
      [] call.cmd = "add" ->
            {AddResult(base, call.inp, call.answer, suffix, today) :
                suffix \in SuffixesFor(Len(base.studies) + 1)}
      [] call.cmd = "supersede" ->
            {SupersedeResult(base, call.old_id, call.new_id)}

\* have both invocations saved, q first and p last, after both had loaded
\* before either save
Overlapped(q, p) ==
    /\ report.rows[q].pc = "done" /\ report.rows[p].pc = "done"
    /\ report.rows[q].loaded_at = 0 /\ report.rows[p].loaded_at = 0
    /\ report.rows[q].saved_at < report.rows[p].saved_at

\* C24: when two mutating invocations both load before either saves, the
\* store after both is the snapshot of the later save alone, that is what
\* its command makes of the store both loaded: nothing the earlier saver
\* added is merged in.
LastWriterWins ==
    \A q \in Procs, p \in Procs :
        Overlapped(q, p) =>
            /\ file_exists
            /\ report.rows[p].base = report.rows[q].base
            /\ db \in Alone(report.rows[p].call, report.rows[p].base)

\* C24 witness: an add and an import of a table both loaded the store of
\* one study, the add saved its second study first, the import saved last,
\* and the file holds two studies, not three
EarlierSaveLost ==
    /\ file_exists
    /\ Overlapped(1, 2)
    /\ report.rows[1].call.cmd = "add" /\ report.rows[2].call.cmd = "import-md"
    /\ Len(report.rows[1].base.studies) = 1
    /\ Len(report.rows[1].snap.studies) = 2
    /\ Len(db.studies) = 2
    /\ db.studies[2].authors # report.rows[1].snap.studies[2].authors

\* the collections of a snapshot, as the contract of the repository lists
\* them
SnapshotCollections ==
    {"studies", "claims", "study_claims", "evidence_usage", "removed_studies"}

\* is the snapshot well formed and empty over the collections cs
EmptyOver(snap, cs) == DOMAIN snap = cs /\ \A c \in cs : snap[c] = <<>>

\* C25: a load with no store file gives an empty well-formed snapshot, with
\* every collection present and empty, instead of an error, and does not
\* create the file (add and supersede are the invocations that call load_db
\* before anything else).
LoadOfNoFileIsEmpty ==
    [][\A p \in Procs :
          (~file_exists /\ report.rows[p].pc = "idle" /\ report'.rows[p].pc # "idle"
           /\ report'.rows[p].call.cmd \in {"add", "supersede"})
              => /\ report'.rows[p].loaded
                 /\ ~file_exists'
                 /\ report'.rows[p].pc = "ready"
                       => EmptyOver(report'.rows[p].base, SnapshotCollections)
      ]_vars

\* C26: no (study_id, claim_id) pair occurs in two link records of the
\* store, also when the claim tags of one study name a claim twice.
UniqueLinkPairs ==
    \A i \in 1..Len(db.study_claims), j \in 1..Len(db.study_claims) :
        i # j => \/ db.study_claims[i].study_id # db.study_claims[j].study_id
                 \/ db.study_claims[i].claim_id # db.study_claims[j].claim_id

\* the commands of the read side
ReadCommands ==
    {"query", "summary", "gaps", "stale", "enrich-all", "stats", "verify-dois"}

\* C27: the read-side commands never save, and find_studies_for_claim and
\* build_summary_data leave the studies, claims and links of the loaded
\* snapshot as they were: the direction is put on copies.
ReadSideHasNoEffect ==
    [][report'.cmd \in ReadCommands =>
          /\ StoreUntouched
          /\ \A c \in ClaimArguments : SnapshotAfterFind(load_db, c) = load_db
          /\ SnapshotAfterFinds(load_db, SortedClaimIds(load_db)) = load_db
      ]_vars

\* C27 witness: a query has returned the copy of a stored study with a
\* direction that the stored study does not have
QueryAnnotatedCopy ==
    /\ report.cmd = "query"
    /\ Len(report.rows[3]) >= 1
    /\ \E i \in 1..Len(db.studies) :
         /\ db.studies[i].study_id = report.rows[3][1].study_id
         /\ db.studies[i].direction # report.rows[3][1].direction

\* what the statement gives for a cell: by the first of its cases that fits
StatedScore(cell) ==
    LET parsed == ParseFloat(cell)
        final == parsed.val
        whole == \E n \in -1000..1000 : final = n * Scale
    IN CASE ~parsed.ok /\ ~IsNonFinite(cell) -> <<0, Scale, 0>>
         [] parsed.ok /\ whole /\ final <= 14 * Scale -> <<final, Scale, final>>
         [] parsed.ok /\ ~(whole /\ final <= 14 * Scale) /\ final < 7 * Scale ->
                <<2 * final, Scale \div 2, final>>
         [] OTHER -> <<final, Scale, final>>

\* C28: parse_score gives (final, 1.0, final) for a whole number not above
\* 14, (final*2, 0.5, final) for a value below 7, (final, 1.0, final) for
\* any other value and (0, 1.0, 0) for an unparsable one.
ParseScoreAsStated ==
    report.cmd = "parse_score" =>
        /\ ~report.rows[2]
        /\ report.rows[3] = StatedScore(report.rows[1])

\* C29: every link names a stored study and a stored claim, and every
\* usage record names a stored study.
ReferentialIntegrity ==
    /\ \A k \in 1..Len(db.study_claims) :
          /\ Stored(db.study_claims[k].study_id)
          /\ \E c \in 1..Len(db.claims) :
                db.claims[c].claim_id = db.study_claims[k].claim_id
    /\ \A k \in 1..Len(db.evidence_usage) : Stored(db.evidence_usage[k].study_id)

\* C29 witness: a store of two studies, both linked to a claim, with a
\* usage record, one study marked superseded
LinkedAndUsed ==
    /\ Len(db.studies) = 2
    /\ Cardinality({db.study_claims[k].study_id : k \in 1..Len(db.study_claims)}) = 2
    /\ Len(db.evidence_usage) >= 1
    /\ \E i \in 1..Len(db.studies) : db.studies[i].status = "superseded"

\* C30: every version that version_file has logged can still be restored:
\* its backup file holds the content the file had when the version was
\* taken, also when two versions were taken within one second.
EveryVersionRestorable ==
    report.cmd = "versions" =>
        \A k \in 1..Len(VersionsLog) :
            VersionsLog[k].action = "version" =>
                Backups[VersionsLog[k].backup] = VersionsLog[k].content

\* the positions of the resolver calls in a sequence of loop events
CallsIn(ev) == {j \in 1..Len(ev) : ev[j].kind = "call"}

\* C21: in a verify-dois batch every resolver call but the first of the run
\* comes right after a pause, and a study without a DOI causes neither a
\* pause nor a call.
VerifyDoisPaced ==
    report.cmd = "verify-dois" =>
        LET studies == VerifyScope(db, report.rows[1])
            ev == report.rows[3].events
        IN /\ \A j \in CallsIn(ev) :
                 (\E j0 \in CallsIn(ev) : j0 < j)
                     => (j > 1 /\ ev[j - 1].kind = "sleep")
           /\ \A j \in 1..Len(ev) : studies[ev[j].i].doi # None

\* C21 witness: a batch has made two resolver calls and reached its summary
VerifyCalledTwice ==
    /\ report.cmd = "verify-dois"
    /\ Cardinality(CallsIn(report.rows[3].events)) = 2
    /\ report.rows[3].summary

===========================================================================
